---- MODULE Spec2Model ----
(***************************************************************************)
(* Model of oggm/utils/_workflow.py: the entity-task runner, the per-     *)
(* entity Status Log (log.txt), the mirror error file and the directory-  *)
(* backed store of GlacierDirectory.                                      *)
(*                                                                         *)
(* Text is modelled as a sequence of atoms.  An atom is a character or an *)
(* indivisible run of characters ("SUCCESS", the timestamp "ts") whose    *)
(* characters occur in no other atom, so that Python's substring test and *)
(* split(';') on the text coincide with the same operations on atoms.     *)
(***************************************************************************)
EXTENDS Integers, Sequences, FiniteSets, TLC

\* ------------------------------------------------------------------ bounds
\* Number of entity-task invocations the driver makes in one behaviour.
MaxInv == 2

\* Number of store operations called in one behaviour.
MaxOps == 2

\* Number of append calls on the cache in one behaviour.
MaxTrack == 3

\* ------------------------------------------------------------- input sets
\* rgi ids of the glacier directories
Entities == {"X", "Y"}

\* __name__ of the decorated task functions
TaskFuncs == {<<"a">>, <<"a", "b">>}

\* values of the filesuffix / output_filesuffix keyword (<<>> is '' or absent)
Suffixes == {<<>>, <<"_s">>}

\* the reset keyword of _entity_task
ResetArgs == {"None", "True", "False"}

\* python None as an error argument / as a value
NoErr == [cls |-> "None", msg |-> <<>>]
None == <<"None">>

\* return values of a task function
TaskValues == {None, <<"v1">>}

\* what each task function returns: a gives a value, ab gives None
TaskValue(func) == IF func = <<"a">> THEN <<"v1">> ELSE None

\* exceptions (subclasses of Exception) a task function raises
TaskErrors ==
    { [cls |-> "RuntimeError", msg |-> <<"x">>],
      [cls |-> "RuntimeError", msg |-> <<"no ", "SUCCESS">>] }

\* logical file names handed to the store ("nokey" is in no registry)
Keys == {"diagnostics", "outlines", "model_diagnostics", "nokey"}

\* cfg.BASENAMES as oggm configures it: one extension per basename
GoodRegistry ==
    [k \in {"diagnostics", "outlines", "model_diagnostics"} |->
        CASE k = "diagnostics" -> <<"diagnostics", ".", "json">>
          [] k = "outlines" -> <<"outlines", ".", "shp">>
          [] k = "model_diagnostics" -> <<"model_diagnostics", ".", "nc">>]

\* a misconfigured cfg.BASENAMES: a basename with two extension segments
BadRegistry ==
    [k \in {"diagnostics", "model_diagnostics"} |->
        CASE k = "diagnostics" -> <<"diagnostics", ".", "json">>
          [] k = "model_diagnostics" ->
                 <<"model_diagnostics", ".", "tar", ".", "gz">>]

Registries == {GoodRegistry, BadRegistry}

\* the lists of directories handed to compile_run_output
GdirLists == {<<"X">>, <<"Y", "X">>}

\* the directories the driver calls store operations on directly
StoreDirs == {"X"}

\* objects handed to write_pickle / write_json
Values == {<<"v1">>, <<"v2">>}

\* objects handed to the writers of the store: "v1" is a dict with string
\* keys only, <<"i1", "v1">> a dict with the int key 1 ("s1" is the string
\* key '1')
Artifacts == {<<"v1">>, <<"i1", "v1">>}

\* texts: one with "\n" line ends, one with "\r\n" line ends
Texts == {<<"t", "\n">>, <<"t", "\r", "\n">>}

\* the use_compression keyword of read_pickle / write_pickle
CompArgs == {"None", "True", "False"}

\* the paths of the temporary files handed to the cache
Paths == {"p", "q", "r"}

\* the maxsize argument of LRUFileCache
MaxSizes == 0..2

\* the l0 argument of LRUFileCache: lists of distinct paths (<<>> is also
\* l0=None)
Distinct(s) == \A i, j \in 1..Len(s) : s[i] = s[j] => i = j
L0s == {l \in UNION {[1..n -> Paths] : n \in 0..3} : Distinct(l)}

\* the store operations of GlacierDirectory
StoreOps == {"get_filepath", "get_filepath_delete", "has_file",
             "read_pickle", "write_pickle", "read_json", "write_json",
             "read_text"}

\* ----------------------------------------------------------------- state
VARIABLES
    continue_on_error,   \* cfg.PARAMS['continue_on_error']
    auto_skip_task,      \* cfg.PARAMS['auto_skip_task']
    working_dir,         \* cfg.PATHS['working_dir'] is a non-empty path
    logfile,             \* content of <gdir.dir>/log.txt, per entity
    haslog,              \* entities whose log.txt exists
    errfile,             \* content of <working_dir>/log/<rgi_id>.ERROR
    logdir,              \* <working_dir>/log exists
    pc,                  \* position of the driver in _entity_task
    cur,                 \* the invocation in flight
    ret,                 \* what the last finished invocation gave its caller
    last,                \* per entity: summary of its last finished invocation
    done,                \* entity of the last finished invocation
    ninv,                \* invocations started so far
    basenames,           \* cfg.BASENAMES
    use_tar_shapefiles,  \* cfg.PARAMS['use_tar_shapefiles']
    use_compression,     \* cfg.PARAMS['use_compression']
    files,               \* per entity: file name -> content, of gdir.dir
    lastop,              \* the last store operation called
    nops,                \* store operations called so far
    mirrors,             \* names of the files in <working_dir>/log
    cache_files,         \* LRUFileCache.files
    maxsize,             \* LRUFileCache.maxsize
    ondisk,              \* the temporary files that exist on disk
    tracked,             \* the arguments of the append calls so far
    ins,                 \* per path: when it entered cache_files, 0 if never
    lost,                \* paths appended while missing or removed by others
    lasttrack,           \* the last operation of the cache
    l0,                  \* the list the cache was constructed from
    workers,             \* per entity: the worker process running its tasks
    diagw,               \* the processes inside add_to_diagnostics
    tree,                \* glacier directories on disk: path -> files
    lastopen,            \* the last GlacierDirectory construction or copy
    lastagg,             \* the last aggregation over a list of directories
    lastcall,            \* the arguments of the last _entity_task call
    handles              \* the GlacierDirectory instances in memory

vars == <<continue_on_error, auto_skip_task, working_dir, logfile, haslog,
          errfile, logdir, pc, cur, ret, last, done, ninv, basenames,
          use_tar_shapefiles, use_compression, files, lastop, nops,
          mirrors, cache_files, maxsize, ondisk, tracked, ins, lost,
          lasttrack, l0, workers, diagw, tree, lastopen, lastagg, lastcall,
          handles>>

auxvars == <<workers, diagw, tree, lastopen, lastagg, lastcall, handles>>

cachevars == <<cache_files, maxsize, ondisk, tracked, ins, lost, lasttrack,
               l0>>

storevars == <<basenames, use_tar_shapefiles, use_compression, files, lastop,
               nops>>

cfgvars == <<continue_on_error, auto_skip_task, working_dir>>

\* ------------------------------------------------------------ text helpers
\* python: p in s
Contains(p, s) ==
    \E i \in 0..(Len(s) - Len(p)) : SubSeq(s, i + 1, i + Len(p)) = p

\* index of the first occurrence of atom ch in s, 0 if none
FirstIdx(s, ch) ==
    IF \E i \in 1..Len(s) : s[i] = ch
    THEN CHOOSE i \in 1..Len(s) : s[i] = ch /\ \A j \in 1..(i - 1) : s[j] # ch
    ELSE 0

\* python: s.replace(old, new), old not empty
RECURSIVE Replace(_, _, _)
Replace(s, old, new) ==
    IF Len(s) < Len(old) THEN s
    ELSE IF SubSeq(s, 1, Len(old)) = old
         THEN new \o Replace(SubSeq(s, Len(old) + 1, Len(s)), old, new)
         ELSE <<Head(s)>> \o Replace(Tail(s), old, new)

\* index of the first "\n" of a non-empty text, 0 if none
FirstNewline(s) ==
    IF \E i \in 1..Len(s) : s[i] = "\n"
    THEN CHOOSE i \in 1..Len(s) :
             s[i] = "\n" /\ \A j \in 1..(i - 1) : s[j] # "\n"
    ELSE 0

\* python: file.readlines() -- every line keeps its trailing "\n"
RECURSIVE readlines(_)
readlines(s) ==
    IF s = <<>> THEN <<>>
    ELSE LET i == FirstNewline(s)
         IN  IF i = 0 THEN <<s>>
             ELSE <<SubSeq(s, 1, i)>> \o readlines(SubSeq(s, i + 1, Len(s)))

\* python: l.replace('\n', '')
RECURSIVE StripNewlines(_)
StripNewlines(s) ==
    IF s = <<>> THEN <<>>
    ELSE IF Head(s) = "\n" THEN StripNewlines(Tail(s))
         ELSE <<Head(s)>> \o StripNewlines(Tail(s))

\* python: s.split(';')[-1]
SplitLast(s) ==
    IF \E i \in 1..Len(s) : s[i] = ";"
    THEN LET i == CHOOSE k \in 1..Len(s) :
                      s[k] = ";" /\ \A j \in (k + 1)..Len(s) : s[j] # ";"
         IN  SubSeq(s, i + 1, Len(s))
    ELSE s

\* python: [l for l in lines if task_name in l]
RECURSIVE LinesWith(_, _)
LinesWith(task_name, lines) ==
    IF lines = <<>> THEN <<>>
    ELSE (IF Contains(task_name, Head(lines)) THEN <<Head(lines)>> ELSE <<>>)
         \o LinesWith(task_name, Tail(lines))

\* ------------------------------------------------------------- Status Log
\* variant: the err test of GlacierDirectory.log is lost
LogLine_alwaysSuccess(task_name, err) ==
    <<"ts", ";">> \o task_name \o <<";", "SUCCESS">>

\* the line GlacierDirectory.log writes, without its newline
LogLine(task_name, err) ==
    <<"ts", ";">> \o task_name \o <<";">> \o
    (IF err = NoErr THEN <<"SUCCESS">> ELSE <<err.cls, ": ">> \o err.msg)

\* variant: log.txt opened with mode 'w' instead of 'a'
log_truncating(content, task_name, err) ==
    LogLine(task_name, err) \o <<"\n">>

\* GlacierDirectory.log: the content of log.txt after the call
log(content, task_name, err) ==
    content \o LogLine(task_name, err) \o <<"\n">>

\* GlacierDirectory.get_task_status
get_task_status(isfile, content, task_name) ==
    IF ~isfile THEN None
    ELSE LET matching == LinesWith(task_name, readlines(content))
             lines == [i \in 1..Len(matching) |-> StripNewlines(matching[i])]
         IN  IF lines # <<>> THEN SplitLast(lines[Len(lines)]) ELSE None

\* ------------------------------------------------------------ mirror file
\* variant: the early "return  # for now" taken on the error branch too
pipe_log_noWrite(wd, content, task_name, err) == content

\* pipe_log: content of <working_dir>/log/<rgi_id>.ERROR after the call
pipe_log(wd, content, task_name, err) ==
    IF ~wd THEN content
    ELSE IF err = NoErr THEN content
    ELSE content \o <<"ts", "; ">> \o task_name \o <<"; ">>
                 \o <<err.cls, "; ">> \o err.msg \o <<"\n">>

\* variant: the "return  # for now" of the success branch is removed
pipe_log_fpath_symmetric(wd, e, err) ==
    IF ~wd THEN {}
    ELSE IF err # NoErr THEN {<<e, ".ERROR">>} ELSE {<<e, ".SUCCESS">>}

\* pipe_log: the file of <working_dir>/log it opens for appending, if any
pipe_log_fpath(wd, e, err) ==
    IF ~wd THEN {}
    ELSE IF err # NoErr THEN {<<e, ".ERROR">>} ELSE {}

\* pipe_log: mkdir(<working_dir>/log) runs before the err test
pipe_log_mkdir(wd, exists) == IF ~wd THEN exists ELSE TRUE

\* ----------------------------------------------------------- entity store
\* gdir.dir, and a path below it as a name relative to it
Dir(e) == <<e, "/">>
Rel(e, path) == SubSeq(path, Len(Dir(e)) + 1, Len(path))

\* a directory with one file removed / written
RemoveFile(dirfiles, name) ==
    [n \in DOMAIN dirfiles \ {name} |-> dirfiles[n]]
WriteFile(dirfiles, name, content) ==
    [n \in DOMAIN dirfiles \cup {name} |->
        IF n = name THEN content ELSE dirfiles[n]]

\* the errors of get_filepath
ValueError(filename) ==
    [cls |-> "ValueError", msg |-> <<filename, " not in cfg.BASENAMES.">>]
AssertionError == [cls |-> "AssertionError", msg |-> <<>>]

\* the errors of open(), gzip, pickle and json
FileNotFoundError == [cls |-> "FileNotFoundError", msg |-> <<>>]
BadGzipFile == [cls |-> "OSError", msg |-> <<"Not a gzipped file">>]
UnpicklingError == [cls |-> "UnpicklingError", msg |-> <<>>]
UnicodeDecodeError == [cls |-> "UnicodeDecodeError", msg |-> <<>>]
JSONDecodeError == [cls |-> "JSONDecodeError", msg |-> <<>>]

\* variant: a basename with a "." always counts as stem and extension
NumParts_firstDot(fname) == IF \E i \in 1..Len(fname) : fname[i] = "." THEN 2 ELSE 1

\* python: len(fname.split('.'))
NumParts(fname) == Cardinality({i \in 1..Len(fname) : fname[i] = "."}) + 1

\* result of a store operation: the error raised (NoErr if none), the value
\* returned and the files of the directory afterwards
Raised(err, dirfiles) == [err |-> err, val |-> None, files |-> dirfiles]
Returned(val, dirfiles) == [err |-> NoErr, val |-> val, files |-> dirfiles]

\* variant: an unregistered name falls back to itself as the basename
get_filepath_fallback(reg, dirfiles, e, filename, delete, filesuffix) ==
    LET fname == IF filename \in DOMAIN reg THEN reg[filename]
                 ELSE <<filename>>
        i == FirstIdx(fname, ".")
    IN  IF filesuffix # <<>> /\ NumParts(fname) # 2
        THEN Raised(AssertionError, dirfiles)
        ELSE LET spliced ==
                     IF filesuffix # <<>>
                     THEN SubSeq(fname, 1, i - 1) \o filesuffix \o <<".">>
                              \o SubSeq(fname, i + 1, Len(fname))
                     ELSE fname
             IN  Returned(Dir(e) \o spliced,
                          IF delete /\ spliced \in DOMAIN dirfiles
                          THEN RemoveFile(dirfiles, spliced)
                          ELSE dirfiles)

\* GlacierDirectory.get_filepath
get_filepath(reg, dirfiles, e, filename, delete, filesuffix) ==
    IF filename \notin DOMAIN reg
    THEN Raised(ValueError(filename), dirfiles)
    ELSE LET fname == reg[filename]
             i == FirstIdx(fname, ".")
         IN  IF filesuffix # <<>> /\ NumParts(fname) # 2
             THEN Raised(AssertionError, dirfiles)
             ELSE LET spliced ==
                          IF filesuffix # <<>>
                          THEN SubSeq(fname, 1, i - 1) \o filesuffix
                                   \o <<".">>
                                   \o SubSeq(fname, i + 1, Len(fname))
                          ELSE fname
                  IN  Returned(Dir(e) \o spliced,
                               IF delete /\ spliced \in DOMAIN dirfiles
                               THEN RemoveFile(dirfiles, spliced)
                               ELSE dirfiles)

\* python bool as a value
Bool(b) == IF b THEN <<"True">> ELSE <<"False">>

\* GlacierDirectory.has_file
has_file(reg, tar, comp, dirfiles, e, filename) ==
    LET r == get_filepath(reg, dirfiles, e, filename, FALSE, <<>>)
    IN  IF r.err # NoErr THEN r
        ELSE LET fp == IF Contains(<<".", "shp">>, r.val) /\ tar
                       THEN Replace(r.val, <<".", "shp">>, <<".", "tar">>)
                                \o (IF comp THEN <<".", "gz">> ELSE <<>>)
                       ELSE r.val
             IN  Returned(Bool(Rel(e, fp) \in DOMAIN dirfiles), dirfiles)

\* "use_compression if use_compression is not None else cfg.PARAMS[...]"
UseComp(arg, comp) == IF arg = "None" THEN comp ELSE arg = "True"

\* pickle.dump(var, f, protocol=-1) / gzip / json.dump: the bytes written
pickle_dump(var) == <<"PKL">> \o var
gzip_compress(bytes) == <<"GZ">> \o bytes
json_key(a) == IF a = "i1" THEN "s1" ELSE a
json_dump(var) == <<"JSON">> \o [i \in 1..Len(var) |-> json_key(var[i])]

\* content that does not decode as text
IsBinary(content) == content # <<>> /\ Head(content) \in {"GZ", "PKL"}

\* variant: read_pickle always uses the builtin open
read_pickle_plainOpen(reg, comp, dirfiles, e, filename, uc, filesuffix) ==
    LET r == get_filepath(reg, dirfiles, e, filename, FALSE, filesuffix)
        name == Rel(e, r.val)
    IN  IF r.err # NoErr THEN r
        ELSE IF name \notin DOMAIN dirfiles
        THEN Raised(FileNotFoundError, dirfiles)
        ELSE LET bytes == dirfiles[name]
             IN  IF bytes = <<>> \/ Head(bytes) # "PKL"
                 THEN Raised(UnpicklingError, dirfiles)
                 ELSE Returned(Tail(bytes), dirfiles)

\* GlacierDirectory.read_pickle
read_pickle(reg, comp, dirfiles, e, filename, uc, filesuffix) ==
    LET r == get_filepath(reg, dirfiles, e, filename, FALSE, filesuffix)
        name == Rel(e, r.val)
    IN  IF r.err # NoErr THEN r
        ELSE IF name \notin DOMAIN dirfiles
        THEN Raised(FileNotFoundError, dirfiles)
        ELSE LET c == dirfiles[name]
                 gz == UseComp(uc, comp)
                 bytes == IF gz THEN Tail(c) ELSE c
             IN  IF gz /\ (c = <<>> \/ Head(c) # "GZ")
                 THEN Raised(BadGzipFile, dirfiles)
                 ELSE IF bytes = <<>> \/ Head(bytes) # "PKL"
                 THEN Raised(UnpicklingError, dirfiles)
                 ELSE Returned(Tail(bytes), dirfiles)

\* GlacierDirectory.write_pickle
write_pickle(reg, comp, dirfiles, e, var, filename, uc, filesuffix) ==
    LET r == get_filepath(reg, dirfiles, e, filename, FALSE, filesuffix)
        bytes == pickle_dump(var)
    IN  IF r.err # NoErr THEN r
        ELSE Returned(None,
                 WriteFile(dirfiles, Rel(e, r.val),
                           IF UseComp(uc, comp)
                           THEN gzip_compress(bytes) ELSE bytes))

\* GlacierDirectory.read_json
read_json(reg, dirfiles, e, filename, filesuffix) ==
    LET r == get_filepath(reg, dirfiles, e, filename, FALSE, filesuffix)
        name == Rel(e, r.val)
    IN  IF r.err # NoErr THEN r
        ELSE IF name \notin DOMAIN dirfiles
        THEN Raised(FileNotFoundError, dirfiles)
        ELSE LET c == dirfiles[name]
             IN  IF IsBinary(c) THEN Raised(UnicodeDecodeError, dirfiles)
                 ELSE IF c = <<>> \/ Head(c) # "JSON"
                 THEN Raised(JSONDecodeError, dirfiles)
                 ELSE Returned(Tail(c), dirfiles)

\* GlacierDirectory.write_json
write_json(reg, dirfiles, e, var, filename, filesuffix) ==
    LET r == get_filepath(reg, dirfiles, e, filename, FALSE, filesuffix)
    IN  IF r.err # NoErr THEN r
        ELSE Returned(None,
                 WriteFile(dirfiles, Rel(e, r.val), json_dump(var)))

\* open(fp, 'r'): "\r\n" and "\r" are read as "\n"
UniversalNewlines(text) ==
    Replace(Replace(text, <<"\r", "\n">>, <<"\n">>), <<"\r">>, <<"\n">>)

\* GlacierDirectory.read_text
read_text(reg, dirfiles, e, filename, filesuffix) ==
    LET r == get_filepath(reg, dirfiles, e, filename, FALSE, filesuffix)
        name == Rel(e, r.val)
    IN  IF r.err # NoErr THEN r
        ELSE IF name \notin DOMAIN dirfiles
        THEN Raised(FileNotFoundError, dirfiles)
        ELSE IF IsBinary(dirfiles[name])
        THEN Raised(UnicodeDecodeError, dirfiles)
        ELSE Returned(UniversalNewlines(dirfiles[name]), dirfiles)

\* a text artifact is written as it is at the path of its key
write_text(reg, dirfiles, e, var, filename, filesuffix) ==
    LET r == get_filepath(reg, dirfiles, e, filename, FALSE, filesuffix)
    IN  IF r.err # NoErr THEN r
        ELSE Returned(None, WriteFile(dirfiles, Rel(e, r.val), var))

\* the errors of the shapefile reader and writer
NotShapefile ==
    [cls |-> "ValueError", msg |-> <<"File ending not that of a shapefile">>]
DriverError == [cls |-> "DriverError", msg |-> <<>>]

\* index of the first occurrence of p in s, 0 if none
FirstOcc(p, s) ==
    IF Contains(p, s)
    THEN CHOOSE i \in 1..(Len(s) - Len(p) + 1) :
             /\ SubSeq(s, i, i + Len(p) - 1) = p
             /\ \A j \in 1..(i - 1) : SubSeq(s, j, j + Len(p) - 1) # p
    ELSE 0

\* GeoDataFrame.to_file(fp): the files of the shapefile set
to_file(dirfiles, name, var) ==
    LET shx == Replace(name, <<".", "shp">>, <<".", "shx">>)
        dbf == Replace(name, <<".", "shp">>, <<".", "dbf">>)
    IN  WriteFile(WriteFile(WriteFile(dirfiles, name, <<"SHP">> \o var),
                            shx, <<"SHX">>),
                  dbf, <<"DBF">> \o var)

\* variant: the pattern is "<stem>*", without the dot
glob_noDot(dirfiles, pattern) ==
    LET stem == SubSeq(pattern, 1, Len(pattern) - 2)
    IN  {n \in DOMAIN dirfiles :
            Len(n) >= Len(stem) /\ SubSeq(n, 1, Len(stem)) = stem}

\* glob.glob(pattern) for a pattern "<stem>.*": the names it matches
glob(dirfiles, pattern) ==
    LET stem == SubSeq(pattern, 1, Len(pattern) - 1)
    IN  IF pattern # <<>> /\ pattern[Len(pattern)] = "*"
        THEN {n \in DOMAIN dirfiles :
                 Len(n) >= Len(stem) /\ SubSeq(n, 1, Len(stem)) = stem}
        ELSE {n \in DOMAIN dirfiles : n = pattern}

\* tarfile: the members added to an archive, each after its arcname
RECURSIVE tar_add(_, _)
tar_add(names, dirfiles) ==
    IF names = {} THEN <<>>
    ELSE LET n == CHOOSE x \in names : TRUE
         IN  <<"<">> \o n \o <<">">> \o dirfiles[n]
                 \o tar_add(names \ {n}, dirfiles)

\* the bytes of the member of an archive with this arcname, <<>> if none
tar_member(content, name) ==
    LET marker == <<"<">> \o name \o <<">">>
        i == FirstOcc(marker, content)
        rest == SubSeq(content, i + Len(marker), Len(content))
        j == FirstIdx(rest, "<")
    IN  IF i = 0 THEN <<>>
        ELSE IF j = 0 THEN rest ELSE SubSeq(rest, 1, j - 1)

\* the name of the archive of a shapefile
tar_path(fp, comp) ==
    Replace(fp, <<".", "shp">>, <<".", "tar">>)
        \o (IF comp THEN <<".", "gz">> ELSE <<>>)

\* GlacierDirectory.write_shapefile
write_shapefile(reg, tar, comp, dirfiles, e, var, filename, filesuffix) ==
    LET r == get_filepath(reg, dirfiles, e, filename, FALSE, filesuffix)
        fp == r.val
        d1 == to_file(dirfiles, Rel(e, fp), var)
        afp == tar_path(fp, comp)
        d2 == IF Rel(e, afp) \in DOMAIN d1 THEN RemoveFile(d1, Rel(e, afp))
              ELSE d1
        fs == glob(d2, Rel(e, Replace(Replace(afp, <<".", "gz">>, <<>>),
                                      <<".", "tar">>, <<".", "*">>)))
        d3 == WriteFile(d2, Rel(e, afp),
                        <<IF comp THEN "TGZ" ELSE "TAR">> \o tar_add(fs, d2))
    IN  IF r.err # NoErr THEN r
        ELSE IF ~Contains(<<".", "shp">>, fp)
        THEN Raised(NotShapefile, dirfiles)
        ELSE IF ~tar THEN Returned(None, d1)
        ELSE Returned(None, [n \in DOMAIN d3 \ fs |-> d3[n]])

\* GlacierDirectory._read_shapefile_from_path
read_shapefile_from_path(tar, comp, dirfiles, e, fp) ==
    IF ~Contains(<<".", "shp">>, fp) THEN Raised(NotShapefile, dirfiles)
    ELSE LET name == Rel(e, IF tar THEN tar_path(fp, comp) ELSE fp)
             bytes == IF tar THEN tar_member(dirfiles[name], Rel(e, fp))
                      ELSE dirfiles[name]
         IN  IF name \notin DOMAIN dirfiles
             THEN Raised(DriverError, dirfiles)
             ELSE IF bytes = <<>> \/ Head(bytes) # "SHP"
             THEN Raised(DriverError, dirfiles)
             ELSE Returned(Tail(bytes), dirfiles)

\* GlacierDirectory.read_shapefile
read_shapefile(reg, tar, comp, dirfiles, e, filename, filesuffix) ==
    LET r == get_filepath(reg, dirfiles, e, filename, FALSE, filesuffix)
    IN  IF r.err # NoErr THEN r
        ELSE read_shapefile_from_path(tar, comp, dirfiles, e, r.val)

\* netCDF4 / xarray: the bytes of a dataset, and the test that a file opens
to_netcdf(var) == <<"NC">> \o var
IsDataset(dirfiles, name) ==
    /\ name \in DOMAIN dirfiles
    /\ dirfiles[name] # <<>>
    /\ Head(dirfiles[name]) = "NC"

\* a caller writes a dataset at the path get_filepath gives it
write_path(reg, dirfiles, e, var, filename, filesuffix) ==
    LET r == get_filepath(reg, dirfiles, e, filename, FALSE, filesuffix)
    IN  IF r.err # NoErr THEN r
        ELSE Returned(None,
                 WriteFile(dirfiles, Rel(e, r.val), to_netcdf(var)))

\* compile_run_output, lines 384-396: index in gdirs of the first entity
\* whose model_diagnostics file opens, 0 when there is none
FirstValid(reg, allfiles, gdirs, filesuffix) ==
    LET Valid(i) ==
            LET g == gdirs[i]
                r == get_filepath(reg, allfiles[g], g, "model_diagnostics",
                                  FALSE, filesuffix)
            IN  r.err = NoErr /\ IsDataset(allfiles[g], Rel(g, r.val))
        S == {i \in 1..Len(gdirs) : Valid(i)}
    IN  IF S = {} THEN 0 ELSE CHOOSE i \in S : \A j \in S : i <= j

\* compile_run_output, lines 435-448: per entity, its data or NaN
RunOutput(reg, allfiles, gdirs, filesuffix) ==
    [i \in 1..Len(gdirs) |->
        LET g == gdirs[i]
            r == get_filepath(reg, allfiles[g], g, "model_diagnostics",
                              FALSE, filesuffix)
        IN  IF r.err = NoErr /\ IsDataset(allfiles[g], Rel(g, r.val))
            THEN "data" ELSE "NaN"]

\* compile_run_output(gdirs, path=False, filesuffix): what the caller gets
compile_run_output(reg, allfiles, gdirs, filesuffix) ==
    IF FirstValid(reg, allfiles, gdirs, filesuffix) = 0
    THEN [kind |-> "raise", val |-> None,
          err |-> [cls |-> "RuntimeError",
                   msg |-> <<"Found no valid glaciers!">>]]
    ELSE [kind |-> "return",
          val |-> RunOutput(reg, allfiles, gdirs, filesuffix),
          err |-> NoErr]

\* one call of a store operation on the directory of e
StoreOp(op, reg, tar, comp, dirfiles, e, key, sfx, var, uc) ==
    CASE op = "get_filepath" ->
             get_filepath(reg, dirfiles, e, key, FALSE, sfx)
      [] op = "get_filepath_delete" ->
             get_filepath(reg, dirfiles, e, key, TRUE, sfx)
      [] op = "has_file" -> has_file(reg, tar, comp, dirfiles, e, key)
      [] op = "read_pickle" ->
             read_pickle(reg, comp, dirfiles, e, key, uc, sfx)
      [] op = "write_pickle" ->
             write_pickle(reg, comp, dirfiles, e, var, key, uc, sfx)
      [] op = "read_json" -> read_json(reg, dirfiles, e, key, sfx)
      [] op = "write_json" -> write_json(reg, dirfiles, e, var, key, sfx)
      [] op = "read_text" -> read_text(reg, dirfiles, e, key, sfx)
      [] op = "write_path" -> write_path(reg, dirfiles, e, var, key, sfx)
      [] op = "write_text" -> write_text(reg, dirfiles, e, var, key, sfx)
      [] op = "write_shapefile" ->
             write_shapefile(reg, tar, comp, dirfiles, e, var, key, sfx)
      [] op = "read_shapefile" ->
             read_shapefile(reg, tar, comp, dirfiles, e, key, sfx)

\* ------------------------------------------------------ bounded file cache
\* the elements of a list
Range(s) == {s[i] : i \in 1..Len(s)}

\* variant: os.remove without the os.path.exists test
evict_unchecked(fpath, disk) ==
    IF fpath \in disk THEN [disk |-> disk \ {fpath}, err |-> NoErr]
    ELSE [disk |-> disk, err |-> FileNotFoundError]

\* LRUFileCache.purge: "if os.path.exists(fpath): os.remove(fpath)"
evict(fpath, disk) == [disk |-> disk \ {fpath}, err |-> NoErr]

\* variant: self.files.pop() instead of self.files.pop(0)
purge_popLast(fs, ms, disk) ==
    IF Len(fs) > ms
    THEN LET fpath == fs[Len(fs)]
             r == evict(fpath, disk)
         IN  [files |-> SubSeq(fs, 1, Len(fs) - 1), disk |-> r.disk,
              evicted |-> <<fpath>>, err |-> r.err]
    ELSE [files |-> fs, disk |-> disk, evicted |-> <<>>, err |-> NoErr]

\* LRUFileCache.purge: the list and the disk afterwards, the path popped
purge(fs, ms, disk) ==
    IF Len(fs) > ms
    THEN LET fpath == Head(fs)
             r == evict(fpath, disk)
         IN  [files |-> Tail(fs), disk |-> r.disk, evicted |-> <<fpath>>,
              err |-> r.err]
    ELSE [files |-> fs, disk |-> disk, evicted |-> <<>>, err |-> NoErr]

\* variant: append without its call of purge
append_noPurge(fs, ms, disk, fpath) ==
    [files |-> IF fpath \notin Range(fs) THEN Append(fs, fpath) ELSE fs,
     disk |-> disk, evicted |-> <<>>, err |-> NoErr]

\* LRUFileCache.append
append(fs, ms, disk, fpath) ==
    purge(IF fpath \notin Range(fs) THEN Append(fs, fpath) ELSE fs, ms, disk)

\* LRUFileCache.__init__
LRUFileCache(l, ms, disk) == purge(l, ms, disk)

\* the largest insertion stamp given so far
MaxStamp(stamps) ==
    CHOOSE n \in {stamps[a] : a \in Paths} :
        \A a \in Paths : stamps[a] <= n

\* no operation of the cache yet
NoTrack == [op |-> "none", path |-> "", files0 |-> <<>>, disk0 |-> {},
            files1 |-> <<>>, disk1 |-> {}, evicted |-> <<>>, err |-> NoErr]

\* a cache nothing is done with
\* nothing outside the runner, the store and the cache is in use
NoAux ==
    /\ workers = <<>>
    /\ diagw = <<>>
    /\ tree = <<>>
    /\ lastopen = <<>>
    /\ lastagg = <<>>
    /\ lastcall = <<>>
    /\ handles = <<>>

NoCache ==
    /\ cache_files = <<>>
    /\ maxsize = 1
    /\ ondisk = {}
    /\ tracked = <<>>
    /\ ins = [a \in Paths |-> 0]
    /\ lost = {}
    /\ lasttrack = NoTrack
    /\ l0 = <<>>

\* ------------------------------------------------------------ task runner
\* variant: "reset = reset or not auto_skip_task"
EffectiveReset_or(resetArg, auto_skip) == resetArg = "True" \/ ~auto_skip

\* _entity_task: reset defaults to not auto_skip_task
EffectiveReset(resetArg, auto_skip) ==
    IF resetArg = "None" THEN ~auto_skip ELSE resetArg = "True"

\* _entity_task: task_func.__name__ plus filesuffix or output_filesuffix
TaskName(func, filesuffix, output_filesuffix) ==
    LET fsuffix == IF filesuffix # <<>> THEN filesuffix
                   ELSE output_filesuffix
    IN  IF fsuffix # <<>> THEN func \o fsuffix ELSE func

\* variant: the "not" of "not reset" is lost
SkipTask_lostNot(reset, s) ==
    reset /\ s # None /\ s # <<>> /\ Contains(<<"SUCCESS">>, s)

\* _entity_task: "if not reset and s and ('SUCCESS' in s): return"
SkipTask(reset, s) ==
    ~reset /\ s # None /\ s # <<>> /\ Contains(<<"SUCCESS">>, s)

\* variant: the skip branch returns the status it found
SkipResult_status == [kind |-> "return", val |-> <<"SUCCESS">>, err |-> NoErr]

\* _entity_task: the bare "return" of the skip branch
SkipResult == [kind |-> "return", val |-> None, err |-> NoErr]

\* variant: the value of task_func is dropped
SuccessResult_dropped(out) == [kind |-> "return", val |-> None, err |-> NoErr]

\* _entity_task: "out = task_func(gdir, **kwargs)" ... "return out"
SuccessResult(out) == [kind |-> "return", val |-> out, err |-> NoErr]

\* variant: the continue_on_error test is inverted
FailureResult_inverted(coe, err) ==
    IF coe THEN [kind |-> "raise", val |-> None, err |-> err]
    ELSE [kind |-> "return", val |-> None, err |-> NoErr]

\* _entity_task: raise unless continue_on_error, else return None
FailureResult(coe, err) ==
    IF ~coe THEN [kind |-> "raise", val |-> None, err |-> err]
    ELSE [kind |-> "return", val |-> None, err |-> NoErr]

\* what an invocation remembers of the one before it on the same entity
NoPrev == [task_name |-> <<>>, forced |-> FALSE, out |-> "none",
           log0 |-> <<>>, log1 |-> <<>>, err1 |-> <<>>]

\* the invocation in flight: its arguments and the files as it found them
Idle == [gdir |-> "X", func |-> <<>>, fsuffix |-> <<>>, task_name |-> <<>>,
         reset |-> FALSE, err |-> NoErr, log0 |-> <<>>, err0 |-> <<>>,
         k |-> 0, prev |-> NoPrev]

NoRet == [kind |-> "none", val |-> None, err |-> NoErr]

\* summary of a finished invocation: out is how it ended, log0/err0 and
\* log1/err1 are log.txt and the mirror file before and after it
NoLast == [func |-> <<>>, fsuffix |-> <<>>, task_name |-> <<>>,
           forced |-> FALSE, out |-> "none", err |-> NoErr,
           log0 |-> <<>>, log1 |-> <<>>, err0 |-> <<>>, err1 |-> <<>>,
           k |-> 0, prev |-> NoPrev]

Finished(c, out, log1, err1) ==
    [func |-> c.func, fsuffix |-> c.fsuffix, task_name |-> c.task_name,
     forced |-> c.reset, out |-> out, err |-> c.err,
     log0 |-> c.log0, log1 |-> log1, err0 |-> c.err0, err1 |-> err1,
     k |-> c.k, prev |-> c.prev]

\* no store operation called yet
NoPrevOp == [op |-> "none", gdir |-> "X", key |-> "", sfx |-> <<>>,
             var |-> <<>>, uc |-> "None", err |-> NoErr]

NoOp == [op |-> "none", gdir |-> "X", key |-> "", sfx |-> <<>>,
         err |-> NoErr, files0 |-> <<>>, intask |-> FALSE, k |-> 0,
         got |-> NoRet, var |-> <<>>, uc |-> "None", prev |-> NoPrevOp]

\* what a store operation remembers of the one before it
PrevOp(o) == [op |-> o.op, gdir |-> o.gdir, key |-> o.key, sfx |-> o.sfx,
              var |-> o.var, uc |-> o.uc, err |-> o.err]

Init ==
    /\ continue_on_error \in BOOLEAN
    /\ auto_skip_task \in BOOLEAN
    /\ working_dir \in BOOLEAN
    /\ logfile = [e \in Entities |-> <<>>]
    /\ haslog = {}
    /\ errfile = [e \in Entities |-> <<>>]
    /\ logdir = FALSE
    /\ pc = "idle"
    /\ cur = Idle
    /\ ret = NoRet
    /\ last = [e \in Entities |-> NoLast]
    /\ done = "none"
    /\ ninv = 0
    /\ basenames = GoodRegistry
    /\ use_tar_shapefiles = FALSE
    /\ use_compression = FALSE
    /\ files = [e \in Entities |-> <<>>]
    /\ lastop = NoOp
    /\ nops = 0
    /\ mirrors = {}
    /\ NoCache /\ NoAux

\* _entity_task, from entry to the skip decision (lines 899-919)
EntityTask(e, func, resetArg, fs, ofs) ==
    /\ pc = "idle"
    /\ ninv < MaxInv
    /\ ninv' = ninv + 1
    /\ LET reset == EffectiveReset(resetArg, auto_skip_task)
           task_name == TaskName(func, fs, ofs)
           s == get_task_status(e \in haslog, logfile[e], task_name)
           c == [gdir |-> e, func |-> func,
                 fsuffix |-> IF fs # <<>> THEN fs ELSE ofs,
                 task_name |-> task_name, reset |-> reset, err |-> NoErr,
                 log0 |-> logfile[e], err0 |-> errfile[e], k |-> ninv + 1,
                 prev |-> [task_name |-> last[e].task_name,
                           forced |-> last[e].forced, out |-> last[e].out,
                           log0 |-> last[e].log0, log1 |-> last[e].log1,
                           err1 |-> last[e].err1]]
       IN  IF SkipTask(reset, s)
           THEN /\ ret' = SkipResult
                /\ last' = [last EXCEPT ![e] =
                               Finished(c, "skip", logfile[e], errfile[e])]
                /\ done' = e
                /\ UNCHANGED <<pc, cur>>
           ELSE /\ pc' = "running"
                /\ cur' = c
                /\ UNCHANGED <<ret, last, done>>
    /\ UNCHANGED <<cfgvars, storevars, logfile, haslog, errfile, logdir,
                   mirrors, cachevars, workers, diagw, tree, lastopen,
                   lastagg, handles>>

\* the driver calls an entity task
Begin(e, func, resetArg, fs, ofs) ==
    /\ EntityTask(e, func, resetArg, fs, ofs)
    /\ UNCHANGED lastcall

\* task_func returns: gdir.log(task_name); return out (lines 923-924, 936)
TaskReturns(v) ==
    /\ pc = "running"
    /\ logfile' = [logfile EXCEPT ![cur.gdir] = log(@, cur.task_name, NoErr)]
    /\ haslog' = haslog \cup {cur.gdir}
    /\ ret' = SuccessResult(v)
    /\ last' = [last EXCEPT ![cur.gdir] =
                   Finished(cur, "ok", logfile'[cur.gdir], errfile[cur.gdir])]
    /\ done' = cur.gdir
    /\ pc' = "idle"
    /\ cur' = Idle
    /\ UNCHANGED <<cfgvars, storevars, errfile, logdir, ninv, mirrors,
                   cachevars, auxvars>>

\* the except branch of _entity_task: gdir.log and pipe_log (lines 925-929)
RaiseInTask(err) ==
    /\ pc = "running"
    /\ logfile' = [logfile EXCEPT ![cur.gdir] = log(@, cur.task_name, err)]
    /\ haslog' = haslog \cup {cur.gdir}
    /\ errfile' = [errfile EXCEPT ![cur.gdir] =
                      pipe_log(working_dir, @, cur.task_name, err)]
    /\ logdir' = pipe_log_mkdir(working_dir, logdir)
    /\ mirrors' = mirrors \cup pipe_log_fpath(working_dir, cur.gdir, err)
    /\ pc' = "logged_failure"
    /\ cur' = [cur EXCEPT !.err = err]
    /\ UNCHANGED <<cfgvars, ret, last, done, ninv>>

\* task_func raises an Exception of its own
TaskRaises(err) ==
    /\ RaiseInTask(err)
    /\ UNCHANGED <<storevars, cachevars, auxvars>>

\* after the failure is logged: raise, or return None (lines 934-936)
FailureExit ==
    /\ pc = "logged_failure"
    /\ ret' = FailureResult(continue_on_error, cur.err)
    /\ last' = [last EXCEPT ![cur.gdir] =
                   Finished(cur, "fail", logfile[cur.gdir],
                            errfile[cur.gdir])]
    /\ done' = cur.gdir
    /\ pc' = "idle"
    /\ cur' = Idle
    /\ UNCHANGED <<cfgvars, storevars, logfile, haslog, errfile, logdir, ninv,
                   mirrors, cachevars, auxvars>>

\* task_func is interrupted by a BaseException that is not an Exception
\* (KeyboardInterrupt, SystemExit): "except Exception" does not catch it
TaskInterrupted ==
    /\ pc = "running"
    /\ ret' = [kind |-> "raise", val |-> None,
               err |-> [cls |-> "KeyboardInterrupt", msg |-> <<>>]]
    /\ last' = [last EXCEPT ![cur.gdir] =
                   Finished(cur, "interrupted", logfile[cur.gdir],
                            errfile[cur.gdir])]
    /\ done' = cur.gdir
    /\ pc' = "idle"
    /\ cur' = Idle
    /\ UNCHANGED <<cfgvars, storevars, logfile, haslog, errfile, logdir, ninv,
                   mirrors, cachevars, auxvars>>

Next ==
    \/ \E e \in Entities, func \in TaskFuncs, r \in ResetArgs,
          fs \in Suffixes, ofs \in Suffixes : Begin(e, func, r, fs, ofs)
    \/ \E v \in TaskValues : v = TaskValue(cur.func) /\ TaskReturns(v)
    \/ \E err \in TaskErrors : TaskRaises(err)
    \/ FailureExit
    \/ TaskInterrupted

Spec == Init /\ [][Next]_vars

\* a store operation is called on a directory; before is what the caller
\* remembers of the operation before it
StoreCallAfter(before, e, op, key, sfx, var, uc) ==
    /\ pc = "idle"
    /\ nops < MaxOps
    /\ nops' = nops + 1
    /\ LET r == StoreOp(op, basenames, use_tar_shapefiles, use_compression,
                        files[e], e, key, sfx, var, uc)
       IN  /\ files' = [files EXCEPT ![e] = r.files]
           /\ ret' = IF r.err # NoErr
                     THEN [kind |-> "raise", val |-> None, err |-> r.err]
                     ELSE [kind |-> "return", val |-> r.val, err |-> NoErr]
           /\ lastop' = [op |-> op, gdir |-> e, key |-> key, sfx |-> sfx,
                         err |-> r.err, files0 |-> files[e],
                         intask |-> FALSE, k |-> 0, got |-> ret',
                         var |-> var, uc |-> uc, prev |-> before]
    /\ UNCHANGED <<cfgvars, basenames, use_tar_shapefiles, use_compression,
                   logfile, haslog, errfile, logdir, pc, cur, last, done,
                   ninv, mirrors, cachevars, auxvars>>

\* the driver calls a store operation on a directory
StoreCall(e, op, key, sfx, var, uc) ==
    StoreCallAfter(NoPrevOp, e, op, key, sfx, var, uc)

\* the driver calls a store operation right after another one
ArtifactCall(e, op, key, sfx, var, uc) ==
    StoreCallAfter(PrevOp(lastop), e, op, key, sfx, var, uc)

\* the running task function calls a store operation on its directory and
\* does not catch what it raises
TaskStoreCall(op, key, sfx, var, uc) ==
    /\ pc = "running"
    /\ nops < MaxOps
    /\ nops' = nops + 1
    /\ LET e == cur.gdir
           r == StoreOp(op, basenames, use_tar_shapefiles, use_compression,
                        files[e], e, key, sfx, var, uc)
       IN  /\ files' = [files EXCEPT ![e] = r.files]
           /\ lastop' = [op |-> op, gdir |-> e, key |-> key, sfx |-> sfx,
                         err |-> r.err, files0 |-> files[e],
                         intask |-> TRUE, k |-> cur.k, got |-> NoRet,
                         var |-> var, uc |-> uc, prev |-> NoPrevOp]
           /\ IF r.err # NoErr
              THEN RaiseInTask(r.err)
              ELSE UNCHANGED <<cfgvars, logfile, haslog, errfile, logdir,
                               pc, cur, ret, last, done, ninv, mirrors>>
    /\ UNCHANGED <<basenames, use_tar_shapefiles, use_compression, cachevars, auxvars>>

\* the driver merges the run output of a list of directories
CompileRunOutput(gdirs, sfx) ==
    /\ pc = "idle"
    /\ nops < MaxOps
    /\ nops' = nops + 1
    /\ ret' = compile_run_output(basenames, files, gdirs, sfx)
    /\ lastop' = [op |-> "compile_run_output", gdir |-> gdirs[1],
                  key |-> "model_diagnostics", sfx |-> sfx,
                  err |-> get_filepath(basenames, files[gdirs[1]], gdirs[1],
                                       "model_diagnostics", FALSE, sfx).err,
                  files0 |-> files[gdirs[1]], intask |-> FALSE, k |-> 0,
                  got |-> ret', var |-> <<>>, uc |-> "None",
                  prev |-> NoPrevOp]
    /\ UNCHANGED <<cfgvars, basenames, use_tar_shapefiles, use_compression,
                   files, logfile, haslog, errfile, logdir, pc, cur, last,
                   done, ninv, mirrors, cachevars, auxvars>>

\* the state before any call, under configuration Cfg
InitWith(Cfg) ==
    /\ Cfg
    /\ logfile = [e \in Entities |-> <<>>]
    /\ haslog = {}
    /\ errfile = [e \in Entities |-> <<>>]
    /\ logdir = FALSE
    /\ pc = "idle"
    /\ cur = Idle
    /\ ret = NoRet
    /\ last = [e \in Entities |-> NoLast]
    /\ done = "none"
    /\ ninv = 0
    /\ files = [e \in Entities |-> <<>>]
    /\ lastop = NoOp
    /\ nops = 0
    /\ mirrors = {}

\* the driver calls store operations, under every store configuration
InitStore ==
    InitWith(/\ continue_on_error = FALSE
             /\ auto_skip_task = TRUE
             /\ working_dir = TRUE
             /\ basenames \in Registries
             /\ use_tar_shapefiles \in BOOLEAN
             /\ use_compression \in BOOLEAN
             /\ NoCache /\ NoAux)

NextStore ==
    \/ \E e \in StoreDirs, key \in Keys, sfx \in Suffixes,
          op \in {"get_filepath", "get_filepath_delete", "read_json",
                  "read_text"} :
           StoreCall(e, op, key, sfx, <<"v1">>, "None")
    \/ \E e \in StoreDirs, key \in Keys :
           StoreCall(e, "has_file", key, <<>>, <<"v1">>, "None")
    \/ \E e \in StoreDirs, key \in Keys, sfx \in Suffixes, uc \in CompArgs :
           StoreCall(e, "read_pickle", key, sfx, <<"v1">>, uc)
    \/ \E e \in StoreDirs, key \in Keys, sfx \in Suffixes, var \in Values,
          uc \in CompArgs :
           StoreCall(e, "write_pickle", key, sfx, var, uc)
    \/ \E e \in StoreDirs, key \in Keys, sfx \in Suffixes, var \in Values :
           StoreCall(e, "write_json", key, sfx, var, "None")

SpecStore == InitStore /\ [][NextStore]_vars

\* entity tasks whose function calls store operations
InitStoreTask ==
    InitWith(/\ continue_on_error \in BOOLEAN
             /\ auto_skip_task = TRUE
             /\ working_dir = TRUE
             /\ basenames \in Registries
             /\ use_tar_shapefiles = FALSE
             /\ use_compression = FALSE
             /\ NoCache /\ NoAux)

NextStoreTask ==
    \/ \E e \in Entities : Begin(e, <<"a">>, "None", <<>>, <<>>)
    \/ \E op \in {"get_filepath", "read_json", "write_json", "write_path"},
          key \in Keys, sfx \in Suffixes :
           TaskStoreCall(op, key, sfx, <<"v1">>, "None")
    \/ TaskReturns(<<"v1">>)
    \/ FailureExit
    \/ \E gdirs \in GdirLists, sfx \in Suffixes :
           CompileRunOutput(gdirs, sfx)

SpecStoreTask == InitStoreTask /\ [][NextStoreTask]_vars

\* the store of one directory under every packaging configuration
InitArtifact ==
    InitWith(/\ continue_on_error = FALSE
             /\ auto_skip_task = TRUE
             /\ working_dir = TRUE
             /\ basenames = GoodRegistry
             /\ use_tar_shapefiles \in BOOLEAN
             /\ use_compression \in BOOLEAN
             /\ NoCache /\ NoAux)

\* artifacts are written and read back in every format
NextArtifact ==
    \/ \E e \in StoreDirs, sfx \in Suffixes, var \in Artifacts,
          uc \in CompArgs :
           ArtifactCall(e, "write_pickle", "diagnostics", sfx, var, uc)
    \/ \E e \in StoreDirs, sfx \in Suffixes, uc \in CompArgs :
           ArtifactCall(e, "read_pickle", "diagnostics", sfx, <<>>, uc)
    \/ \E e \in StoreDirs, sfx \in Suffixes, var \in Artifacts :
           ArtifactCall(e, "write_json", "diagnostics", sfx, var, "None")
    \/ \E e \in StoreDirs, sfx \in Suffixes, var \in Texts :
           ArtifactCall(e, "write_text", "diagnostics", sfx, var, "None")
    \/ \E e \in StoreDirs, sfx \in Suffixes,
          op \in {"read_json", "read_text"} :
           ArtifactCall(e, op, "diagnostics", sfx, <<>>, "None")
    \/ \E e \in StoreDirs, sfx \in Suffixes, var \in Values,
          key \in {"outlines", "diagnostics"} :
           ArtifactCall(e, "write_shapefile", key, sfx, var, "None")
    \/ \E e \in StoreDirs, sfx \in Suffixes,
          key \in {"outlines", "diagnostics"} :
           ArtifactCall(e, "read_shapefile", key, sfx, <<>>, "None")
    \/ \E e \in StoreDirs, key \in {"outlines", "diagnostics"} :
           ArtifactCall(e, "has_file", key, <<>>, <<>>, "None")

SpecArtifact == InitArtifact /\ [][NextArtifact]_vars

\* somebody calls gdir.log(task_name, err=err) directly
LogCall(e, task_name, err) ==
    /\ nops < MaxOps
    /\ nops' = nops + 1
    /\ logfile' = [logfile EXCEPT ![e] = log(@, task_name, err)]
    /\ haslog' = haslog \cup {e}
    /\ lastop' = [NoOp EXCEPT !.op = "log", !.gdir = e, !.err = err]
    /\ UNCHANGED <<cfgvars, basenames, use_tar_shapefiles, use_compression,
                   files, errfile, logdir, pc, cur, ret, last, done, ninv,
                   mirrors, cachevars, auxvars>>

\* entity tasks and direct appends to the Status Log
NextLog ==
    \/ \E e \in StoreDirs, r \in {"True", "False"} :
           Begin(e, <<"a">>, r, <<>>, <<>>)
    \/ TaskReturns(TaskValue(cur.func))
    \/ TaskRaises([cls |-> "RuntimeError", msg |-> <<"x">>])
    \/ FailureExit
    \/ TaskInterrupted
    \/ \E e \in StoreDirs, func \in TaskFuncs :
           LogCall(e, func, NoErr)
    \/ \E e \in StoreDirs :
           LogCall(e, <<"a">>, [cls |-> "RuntimeError", msg |-> <<"x">>])
    \/ \E e \in StoreDirs :
           LogCall(e, <<"a", "b">>,
                   [cls |-> "RuntimeError", msg |-> <<"x", ";", "y">>])

\* the runner and the log on one directory, without a working directory
InitLog ==
    /\ InitWith(/\ continue_on_error = TRUE
                /\ auto_skip_task = TRUE
                /\ working_dir = FALSE
                /\ basenames = GoodRegistry
                /\ use_tar_shapefiles = FALSE
                /\ use_compression = FALSE
                /\ NoCache /\ NoAux)

SpecLog == InitLog /\ [][NextLog]_vars

\* a cache constructed from l0 with capacity maxsize; the files of l0 that
\* exist are any of them
InitCache ==
    /\ InitWith(/\ continue_on_error = FALSE
                /\ auto_skip_task = TRUE
                /\ working_dir = TRUE
                /\ basenames = GoodRegistry
                /\ use_tar_shapefiles = FALSE
                /\ use_compression = FALSE
                /\ NoAux)
    /\ l0 \in L0s
    /\ maxsize \in MaxSizes
    /\ \E disk0 \in SUBSET Range(l0) :
           LET r == LRUFileCache(l0, maxsize, disk0)
           IN  /\ cache_files = r.files
               /\ ondisk = r.disk
               /\ lost = Range(l0) \ disk0
               /\ lasttrack = [op |-> "init", path |-> "", files0 |-> l0,
                               disk0 |-> disk0, files1 |-> r.files,
                               disk1 |-> r.disk, evicted |-> r.evicted,
                               err |-> r.err]
    /\ tracked = <<>>
    /\ ins = [a \in Paths |->
                 IF a \in Range(l0) THEN FirstIdx(l0, a) ELSE 0]

\* the user of the cache hands it a path: LRUFileCache.append(fpath)
Track(fpath) ==
    /\ Len(tracked) < MaxTrack
    /\ LET r == append(cache_files, maxsize, ondisk, fpath)
       IN  /\ cache_files' = r.files
           /\ ondisk' = r.disk
           /\ lasttrack' = [op |-> "append", path |-> fpath,
                            files0 |-> cache_files, disk0 |-> ondisk,
                            files1 |-> r.files, disk1 |-> r.disk,
                            evicted |-> r.evicted, err |-> r.err]
    /\ tracked' = Append(tracked, fpath)
    /\ ins' = IF fpath \notin Range(cache_files)
              THEN [ins EXCEPT ![fpath] = MaxStamp(ins) + 1]
              ELSE ins
    /\ lost' = IF fpath \notin ondisk THEN lost \cup {fpath} ELSE lost
    /\ UNCHANGED <<cfgvars, storevars, logfile, haslog, errfile, logdir, pc,
                   cur, ret, last, done, ninv, mirrors, maxsize, l0,
                   auxvars>>

\* the user of the cache writes a temporary file
Touch(fpath) ==
    /\ fpath \notin ondisk
    /\ ondisk' = ondisk \cup {fpath}
    /\ lost' = IF ins[fpath] # 0 THEN lost \cup {fpath} ELSE lost
    /\ UNCHANGED <<cfgvars, storevars, logfile, haslog, errfile, logdir, pc,
                   cur, ret, last, done, ninv, mirrors, cache_files, maxsize,
                   tracked, ins, lasttrack, l0, auxvars>>

\* somebody else removes a temporary file
Unlink(fpath) ==
    /\ fpath \in ondisk
    /\ ondisk' = ondisk \ {fpath}
    /\ lost' = lost \cup {fpath}
    /\ UNCHANGED <<cfgvars, storevars, logfile, haslog, errfile, logdir, pc,
                   cur, ret, last, done, ninv, mirrors, cache_files, maxsize,
                   tracked, ins, lasttrack, l0, auxvars>>

NextCache ==
    \/ \E fpath \in Paths : Track(fpath)
    \/ \E fpath \in Paths : Touch(fpath)
    \/ \E fpath \in Paths : Unlink(fpath)

SpecCache == InitCache /\ [][NextCache]_vars

\* ------------------------------------------------- collection-scoped tasks
\* a python function: its __name__, whether calling it goes through the
\* _entity_task wrapper, and the marks in its __dict__
TaskFunction(name) == [name |-> name, wrapper |-> FALSE, dict |-> {}]

\* variant: global_task wraps the function as entity_task does
global_task_wrapping(task_func) ==
    [task_func EXCEPT !.wrapper = TRUE, !.dict = @ \cup {"global_task"}]

\* global_task: marks the function and returns it
global_task(task_func) ==
    [task_func EXCEPT !.dict = @ \cup {"global_task"}]

\* the driver calls a function decorated with global_task on the list of
\* all directories; the function returns its value or raises err
GlobalCall(func, err) ==
    /\ pc = "idle"
    /\ nops < MaxOps
    /\ nops' = nops + 1
    /\ LET f == global_task(TaskFunction(func))
           e == "X"
           out == IF err = NoErr THEN SuccessResult(TaskValue(func))
                  ELSE [kind |-> "raise", val |-> None, err |-> err]
           s == get_task_status(e \in haslog, logfile[e], f.name)
           skip == SkipTask(EffectiveReset("None", auto_skip_task), s)
           got == IF ~f.wrapper THEN out
                  ELSE IF skip THEN SuccessResult(None)
                  ELSE IF err = NoErr THEN out
                  ELSE FailureResult(continue_on_error, err)
           logged == f.wrapper /\ ~skip
       IN  /\ ret' = got
           /\ logfile' = IF logged
                         THEN [logfile EXCEPT ![e] = log(@, f.name, err)]
                         ELSE logfile
           /\ haslog' = IF logged THEN haslog \cup {e} ELSE haslog
           /\ errfile' = IF logged
                         THEN [errfile EXCEPT
                                   ![e] = pipe_log(working_dir, @, f.name,
                                                   err)]
                         ELSE errfile
           /\ logdir' = IF logged THEN pipe_log_mkdir(working_dir, logdir)
                        ELSE logdir
           /\ mirrors' = IF logged
                         THEN mirrors \cup pipe_log_fpath(working_dir, e, err)
                         ELSE mirrors
           /\ lastop' = [NoOp EXCEPT !.op = "global_task", !.err = err,
                                     !.got = got, !.var = func]
    /\ UNCHANGED <<cfgvars, basenames, use_tar_shapefiles, use_compression,
                   files, pc, cur, last, done, ninv, cachevars, auxvars>>

\* entity tasks and collection-scoped tasks of the same name
NextGlobal ==
    \/ \E r \in ResetArgs : Begin("X", <<"a">>, r, <<>>, <<>>)
    \/ TaskReturns(TaskValue(cur.func))
    \/ TaskRaises([cls |-> "RuntimeError", msg |-> <<"x">>])
    \/ FailureExit
    \/ GlobalCall(<<"a">>, NoErr)
    \/ GlobalCall(<<"a">>, [cls |-> "RuntimeError", msg |-> <<"x">>])

InitGlobal ==
    InitWith(/\ continue_on_error \in BOOLEAN
             /\ auto_skip_task \in BOOLEAN
             /\ working_dir = TRUE
             /\ basenames = GoodRegistry
             /\ use_tar_shapefiles = FALSE
             /\ use_compression = FALSE
             /\ NoCache /\ NoAux)

SpecGlobal == InitGlobal /\ [][NextGlobal]_vars


\* ------------------------------------------- one worker process per entity
\* pipe_log: the mirror file is named after gdir.rgi_id
\* variant: one mirror file for all entities
MirrorOwner_shared(rgi_id) == "X"

\* pipe_log: the entity whose mirror file a failure on rgi_id is appended to
MirrorOwner(rgi_id) == rgi_id

\* a worker between two invocations; the own_ fields are what log.txt, the
\* mirror file, the directory and the result of this entity are when its
\* invocations run with no other worker around
NoWorker == [pc |-> "idle", task_name |-> <<>>, reset |-> FALSE,
             err |-> NoErr, n |-> 0, wrote |-> FALSE, ret |-> NoRet,
             own_log |-> <<>>, own_err |-> <<>>, own_files |-> <<>>,
             own_ret |-> NoRet]

\* _entity_task in the worker of e, from entry to the skip decision
WBegin(e, func, resetArg) ==
    LET w == workers[e]
        reset == EffectiveReset(resetArg, auto_skip_task)
        task_name == TaskName(func, <<>>, <<>>)
        s == get_task_status(e \in haslog, logfile[e], task_name)
        own_s == get_task_status(w.own_log # <<>>, w.own_log, task_name)
        skipped == [kind |-> "return", val |-> None, err |-> NoErr]
    IN  /\ w.pc = "idle"
        /\ w.n < MaxInv
        /\ workers' = [workers EXCEPT ![e] =
               [w EXCEPT !.n = @ + 1, !.task_name = task_name,
                         !.reset = reset, !.err = NoErr, !.wrote = FALSE,
                         !.pc = IF SkipTask(reset, s) THEN "idle"
                                ELSE "running",
                         !.ret = IF SkipTask(reset, s) THEN skipped
                                 ELSE NoRet,
                         !.own_ret = IF SkipTask(reset, own_s) THEN skipped
                                     ELSE NoRet]]
        /\ UNCHANGED <<cfgvars, storevars, logfile, haslog, errfile, logdir,
                       pc, cur, ret, last, done, ninv, mirrors, cachevars,
                       diagw, tree, lastopen, lastagg, lastcall,
                   handles>>

\* the task function running in the worker of e writes an artifact of e
WWrite(e, var) ==
    LET w == workers[e]
        r == write_json(basenames, files[e], e, var, "diagnostics", <<>>)
        own_r == write_json(basenames, w.own_files, e, var, "diagnostics",
                            <<>>)
    IN  /\ w.pc = "running"
        /\ ~w.wrote
        /\ files' = [files EXCEPT ![e] = r.files]
        /\ workers' = [workers EXCEPT ![e] =
               [w EXCEPT !.wrote = TRUE, !.own_files = own_r.files]]
        /\ UNCHANGED <<cfgvars, basenames, use_tar_shapefiles,
                       use_compression, lastop, nops, logfile, haslog,
                       errfile, logdir, pc, cur, ret, last, done, ninv,
                       mirrors, cachevars, diagw, tree, lastopen, lastagg, lastcall,
                   handles>>

\* the task function returns in the worker of e: gdir.log; return out
WReturn(e) ==
    LET w == workers[e]
    IN  /\ w.pc = "running"
        /\ logfile' = [logfile EXCEPT ![e] = log(@, w.task_name, NoErr)]
        /\ haslog' = haslog \cup {e}
        /\ workers' = [workers EXCEPT ![e] =
               [w EXCEPT !.pc = "idle",
                         !.ret = SuccessResult(<<"v1">>),
                         !.own_ret = SuccessResult(<<"v1">>),
                         !.own_log = log(@, w.task_name, NoErr)]]
        /\ UNCHANGED <<cfgvars, storevars, errfile, logdir, pc, cur, ret,
                       last, done, ninv, mirrors, cachevars, diagw, tree,
                       lastopen, lastagg, lastcall,
                   handles>>

\* the task function raises in the worker of e: gdir.log(task_name, err=err)
WLog(e, err) ==
    LET w == workers[e]
    IN  /\ w.pc = "running"
        /\ logfile' = [logfile EXCEPT ![e] = log(@, w.task_name, err)]
        /\ haslog' = haslog \cup {e}
        /\ workers' = [workers EXCEPT ![e] =
               [w EXCEPT !.pc = "logged", !.err = err,
                         !.own_log = log(@, w.task_name, err)]]
        /\ UNCHANGED <<cfgvars, storevars, errfile, logdir, pc, cur, ret,
                       last, done, ninv, mirrors, cachevars, diagw, tree,
                       lastopen, lastagg, lastcall,
                   handles>>

\* then pipe_log(gdir, task_name, err=err) in the worker of e
WMirror(e) ==
    LET w == workers[e]
        m == MirrorOwner(e)
    IN  /\ w.pc = "logged"
        /\ errfile' = [errfile EXCEPT ![m] =
                          pipe_log(working_dir, @, w.task_name, w.err)]
        /\ logdir' = pipe_log_mkdir(working_dir, logdir)
        /\ mirrors' = mirrors \cup pipe_log_fpath(working_dir, m, w.err)
        /\ workers' = [workers EXCEPT ![e] =
               [w EXCEPT !.pc = "mirrored",
                         !.own_err = pipe_log(working_dir, @, w.task_name,
                                              w.err)]]
        /\ UNCHANGED <<cfgvars, storevars, logfile, haslog, pc, cur, ret,
                       last, done, ninv, cachevars, diagw, tree, lastopen,
                       lastagg, lastcall,
                   handles>>

\* then raise, or return None, in the worker of e
WExit(e) ==
    LET w == workers[e]
    IN  /\ w.pc = "mirrored"
        /\ workers' = [workers EXCEPT ![e] =
               [w EXCEPT !.pc = "idle",
                         !.ret = FailureResult(continue_on_error, w.err),
                         !.own_ret = FailureResult(continue_on_error, w.err)]]
        /\ UNCHANGED <<cfgvars, storevars, logfile, haslog, errfile, logdir,
                       pc, cur, ret, last, done, ninv, mirrors, cachevars,
                       diagw, tree, lastopen, lastagg, lastcall,
                   handles>>

\* the workers of the entities take their steps in any order
NextWorkers ==
    \/ \E e \in Entities, r \in {"None", "True"} : WBegin(e, <<"a">>, r)
    \/ \E e \in Entities : WWrite(e, <<"v1">>)
    \/ \E e \in Entities : WReturn(e)
    \/ \E e \in Entities :
           WLog(e, [cls |-> "RuntimeError", msg |-> <<"x">>])
    \/ \E e \in Entities : WMirror(e)
    \/ \E e \in Entities : WExit(e)

InitWorkers ==
    /\ InitWith(/\ continue_on_error \in BOOLEAN
                /\ auto_skip_task = TRUE
                /\ working_dir \in BOOLEAN
                /\ basenames = GoodRegistry
                /\ use_tar_shapefiles = FALSE
                /\ use_compression = FALSE
                /\ NoCache)
    /\ workers = [e \in Entities |-> NoWorker]
    /\ diagw = <<>>
    /\ tree = <<>>
    /\ lastopen = <<>>
    /\ lastagg = <<>>
    /\ lastcall = <<>>
    /\ handles = <<>>

SpecWorkers == InitWorkers /\ [][NextWorkers]_vars


\* -------------------------------------------------- diagnostics of a directory
\* the keys the two processes add, and a key that is there before
DiagKeys == [p \in 1..2 |-> IF p = 1 THEN "k1" ELSE "k2"]
DiagFile == <<"diagnostics", ".", "json">>

\* what diagnostics.json of X is before the calls: missing, an empty dict,
\* or a dict with one entry
DiagFiles0 ==
    {<<>>, WriteFile(<<>>, DiagFile, json_dump(<<>>)),
     WriteFile(<<>>, DiagFile, json_dump(<<"k0">>))}

\* variant: the entry is not set
dict_set_dropped(d, key) == d

\* python: d[key] = value, on a dict written as the sequence of its keys
dict_set(d, key) == IF \E i \in 1..Len(d) : d[i] = key THEN d ELSE Append(d, key)

\* python: open(path, 'w') creates the file or truncates it
open_w(dirfiles, name) == WriteFile(dirfiles, name, <<>>)

\* a process that has not called add_to_diagnostics yet
NoDiagProc == [pc |-> "start", d |-> <<>>, err |-> NoErr]

\* process p enters add_to_diagnostics -> get_diagnostics:
\* "if not self.has_file('diagnostics')"
DCheck(p) ==
    LET w == diagw.procs[p]
        r == has_file(basenames, use_tar_shapefiles, use_compression,
                      files["X"], "X", "diagnostics")
    IN  /\ w.pc = "start"
        /\ diagw' = [diagw EXCEPT !.procs[p].pc =
                         IF r.val = Bool(TRUE) THEN "read" ELSE "create"]
        /\ UNCHANGED <<cfgvars, storevars, logfile, haslog, errfile, logdir,
                       pc, cur, ret, last, done, ninv, mirrors, cachevars,
                       workers, tree, lastopen, lastagg, lastcall,
                   handles>>

\* get_diagnostics: "with open(self.get_filepath('diagnostics'), 'w') as f"
DCreateOpen(p) ==
    /\ diagw.procs[p].pc = "create"
    /\ files' = [files EXCEPT !["X"] = open_w(@, DiagFile)]
    /\ diagw' = [diagw EXCEPT !.procs[p].pc = "create_dump"]
    /\ UNCHANGED <<cfgvars, basenames, use_tar_shapefiles, use_compression,
                   lastop, nops, logfile, haslog, errfile, logdir, pc, cur,
                   ret, last, done, ninv, mirrors, cachevars, workers, tree,
                   lastopen, lastagg, lastcall,
                   handles>>

\* get_diagnostics: "json.dump(dict(), f)" and the file is closed
DCreateDump(p) ==
    /\ diagw.procs[p].pc = "create_dump"
    /\ files' = [files EXCEPT !["X"] = WriteFile(@, DiagFile, json_dump(<<>>))]
    /\ diagw' = [diagw EXCEPT !.procs[p].pc = "read"]
    /\ UNCHANGED <<cfgvars, basenames, use_tar_shapefiles, use_compression,
                   lastop, nops, logfile, haslog, errfile, logdir, pc, cur,
                   ret, last, done, ninv, mirrors, cachevars, workers, tree,
                   lastopen, lastagg, lastcall,
                   handles>>

\* get_diagnostics: "out = json.load(f)"; add_to_diagnostics: "d[key] = value"
DRead(p) ==
    LET r == read_json(basenames, files["X"], "X", "diagnostics", <<>>)
    IN  /\ diagw.procs[p].pc = "read"
        /\ diagw' = IF r.err # NoErr
                    THEN [diagw EXCEPT !.procs[p].pc = "raised",
                                       !.procs[p].err = r.err]
                    ELSE [diagw EXCEPT !.procs[p].pc = "open",
                                       !.procs[p].d =
                                           dict_set(r.val, DiagKeys[p])]
        /\ UNCHANGED <<cfgvars, storevars, logfile, haslog, errfile, logdir,
                       pc, cur, ret, last, done, ninv, mirrors, cachevars,
                       workers, tree, lastopen, lastagg, lastcall,
                   handles>>

\* add_to_diagnostics: "with open(self.get_filepath('diagnostics'), 'w') as f"
DOpen(p) ==
    /\ diagw.procs[p].pc = "open"
    /\ files' = [files EXCEPT !["X"] = open_w(@, DiagFile)]
    /\ diagw' = [diagw EXCEPT !.procs[p].pc = "dump"]
    /\ UNCHANGED <<cfgvars, basenames, use_tar_shapefiles, use_compression,
                   lastop, nops, logfile, haslog, errfile, logdir, pc, cur,
                   ret, last, done, ninv, mirrors, cachevars, workers, tree,
                   lastopen, lastagg, lastcall,
                   handles>>

\* add_to_diagnostics: "json.dump(d, f)" and the file is closed
DDump(p) ==
    /\ diagw.procs[p].pc = "dump"
    /\ files' = [files EXCEPT !["X"] =
                    WriteFile(@, DiagFile, json_dump(diagw.procs[p].d))]
    /\ diagw' = [diagw EXCEPT !.procs[p].pc = "done", !.last = p]
    /\ UNCHANGED <<cfgvars, basenames, use_tar_shapefiles, use_compression,
                   lastop, nops, logfile, haslog, errfile, logdir, pc, cur,
                   ret, last, done, ninv, mirrors, cachevars, workers, tree,
                   lastopen, lastagg, lastcall,
                   handles>>

\* two processes call add_to_diagnostics on the same directory
NextDiag ==
    \/ \E p \in 1..2 : DCheck(p)
    \/ \E p \in 1..2 : DCreateOpen(p)
    \/ \E p \in 1..2 : DCreateDump(p)
    \/ \E p \in 1..2 : DRead(p)
    \/ \E p \in 1..2 : DOpen(p)
    \/ \E p \in 1..2 : DDump(p)

InitDiag ==
    /\ continue_on_error = FALSE
    /\ auto_skip_task = TRUE
    /\ working_dir = TRUE
    /\ basenames = GoodRegistry
    /\ use_tar_shapefiles \in BOOLEAN
    /\ use_compression = FALSE
    /\ logfile = [e \in Entities |-> <<>>]
    /\ haslog = {}
    /\ errfile = [e \in Entities |-> <<>>]
    /\ logdir = FALSE
    /\ pc = "idle"
    /\ cur = Idle
    /\ ret = NoRet
    /\ last = [e \in Entities |-> NoLast]
    /\ done = "none"
    /\ ninv = 0
    /\ \E f0 \in DiagFiles0 :
           /\ files = [e \in Entities |-> IF e = "X" THEN f0 ELSE <<>>]
           /\ diagw = [procs |-> [p \in 1..2 |-> NoDiagProc], last |-> 0,
                       files0 |-> f0]
    /\ lastop = NoOp
    /\ nops = 0
    /\ mirrors = {}
    /\ NoCache
    /\ workers = <<>>
    /\ tree = <<>>
    /\ lastopen = <<>>
    /\ lastagg = <<>>
    /\ lastcall = <<>>
    /\ handles = <<>>

SpecDiag == InitDiag /\ [][NextDiag]_vars


\* ------------------------------------------------------------- aggregation
\* cfg.BASENAMES with the climate file compile_climate_input reads
AggRegistry ==
    [k \in DOMAIN GoodRegistry \cup {"climate_monthly"} |->
        IF k = "climate_monthly" THEN <<"climate_monthly", ".", "nc">>
        ELSE GoodRegistry[k]]

\* directories as aggregation may find them: each artifact missing, valid
\* or (outlines, model_diagnostics) corrupt
MergeFiles(d1, d2) ==
    [n \in DOMAIN d1 \cup DOMAIN d2 |->
        IF n \in DOMAIN d2 THEN d2[n] ELSE d1[n]]

OutlinesFiles ==
    {<<>>, to_file(<<>>, <<"outlines", ".", "shp">>, <<"v1">>),
     WriteFile(<<>>, <<"outlines", ".", "shp">>, <<"x">>)}
RunFiles ==
    {<<>>, WriteFile(<<>>, <<"model_diagnostics", ".", "nc">>,
                     to_netcdf(<<"v1">>)),
     WriteFile(<<>>, <<"model_diagnostics", ".", "nc">>, <<"x">>)}
ClimateFiles ==
    {<<>>, WriteFile(<<>>, <<"climate_monthly", ".", "nc">>,
                     to_netcdf(<<"v2">>))}
AggDirs ==
    {MergeFiles(MergeFiles(MergeFiles(o, r), c), d) :
         o \in OutlinesFiles, r \in RunFiles, c \in ClimateFiles,
         d \in {<<>>, WriteFile(<<>>, DiagFile, json_dump(<<"k0">>))}}

\* GlacierDirectory.rgi_area_km2 on a handle that has not read it yet
rgi_area_km2(reg, tar, comp, dirfiles, e) ==
    LET r == read_shapefile(reg, tar, comp, dirfiles, e, "outlines", <<>>)
    IN  IF r.err # NoErr /\ r.err.cls = "OSError"
        THEN Raised([cls |-> "RuntimeError",
                     msg |-> <<"Please run define_glacier_region">>],
                    dirfiles)
        ELSE r

\* GlacierDirectory.get_diagnostics: the dict, and the files afterwards
get_diagnostics(reg, tar, comp, dirfiles, e) ==
    LET h == has_file(reg, tar, comp, dirfiles, e, "diagnostics")
        fp == get_filepath(reg, dirfiles, e, "diagnostics", FALSE, <<>>)
        d1 == IF h.val = Bool(TRUE) THEN dirfiles
              ELSE WriteFile(open_w(dirfiles, Rel(e, fp.val)),
                             Rel(e, fp.val), json_dump(<<>>))
        r == read_json(reg, d1, e, "diagnostics", <<>>)
    IN  IF h.err # NoErr THEN h
        ELSE IF r.err # NoErr THEN Raised(r.err, d1)
        ELSE Returned(r.val, d1)

\* compile_glacier_statistics, the loop over gdirs: the "easy stats" are
\* read outside any try, the diagnostics inside "except BaseException: pass"
WithRow(row, rest) ==
    [err |-> rest.err,
     rows |-> IF rest.err = NoErr THEN <<row>> \o rest.rows ELSE <<>>,
     files |-> rest.files]

RECURSIVE GlacierStatistics(_, _, _, _, _, _)
GlacierStatistics(reg, tar, comp, allfiles, gdirs, inversion_only) ==
    IF gdirs = <<>> THEN [err |-> NoErr, rows |-> <<>>, files |-> allfiles]
    ELSE LET g == Head(gdirs)
             a == rgi_area_km2(reg, tar, comp, allfiles[g], g)
             dg == get_diagnostics(reg, tar, comp, allfiles[g], g)
             files1 == IF inversion_only THEN allfiles
                       ELSE [allfiles EXCEPT ![g] = dg.files]
             row == [rgi_id |-> g, rgi_area_km2 |-> a.val,
                     diags |-> IF ~inversion_only /\ dg.err = NoErr
                               THEN dg.val ELSE <<>>]
         IN  IF a.err # NoErr
             THEN [err |-> a.err, rows |-> <<>>, files |-> allfiles]
             ELSE WithRow(row, GlacierStatistics(reg, tar, comp, files1,
                                                 Tail(gdirs),
                                                 inversion_only))

\* compile_glacier_statistics, after the loop: the rows as a table, or the
\* error that left the loop
Compiled(s) ==
    [got |-> IF s.err # NoErr
             THEN [kind |-> "raise", val |-> None, err |-> s.err]
             ELSE [kind |-> "return", val |-> s.rows, err |-> NoErr],
     files |-> s.files]

\* compile_glacier_statistics(gdirs, inversion_only=...): what the caller
\* gets, and the files of the directories afterwards
compile_glacier_statistics(reg, tar, comp, allfiles, gdirs, inversion_only) ==
    Compiled(GlacierStatistics(reg, tar, comp, allfiles, gdirs,
                               inversion_only))

\* compile_climate_input: the probe loop and the loop over gdirs
ClimateValid(reg, allfiles, g, filename, filesuffix) ==
    LET r == get_filepath(reg, allfiles[g], g, filename, FALSE, filesuffix)
    IN  r.err = NoErr /\ IsDataset(allfiles[g], Rel(g, r.val))

\* compile_climate_input(gdirs, filename=..., filesuffix=...)
compile_climate_input(reg, allfiles, gdirs, filename, filesuffix) ==
    IF \A i \in 1..Len(gdirs) :
           ~ClimateValid(reg, allfiles, gdirs[i], filename, filesuffix)
    THEN [kind |-> "raise", val |-> None,
          err |-> [cls |-> "RuntimeError",
                   msg |-> <<"Found no valid glaciers!">>]]
    ELSE [kind |-> "return",
          val |-> [i \in 1..Len(gdirs) |->
                      IF ClimateValid(reg, allfiles, gdirs[i], filename,
                                      filesuffix)
                      THEN "data" ELSE "NaN"],
          err |-> NoErr]

\* compile_task_log(gdirs, task_names=[task_name]): the status column
compile_task_log(logs, withlog, gdirs, task_name) ==
    [kind |-> "return",
     val |-> [i \in 1..Len(gdirs) |->
                 LET ts == get_task_status(gdirs[i] \in withlog,
                                           logs[gdirs[i]], task_name)
                 IN  IF ts = None THEN <<>>
                     ELSE Replace(ts, <<",">>, <<" ">>)],
     err |-> NoErr]

\* the driver calls an aggregation function on a list of directories
Aggregate(fn, gdirs, got, files1) ==
    /\ pc = "idle"
    /\ nops < MaxOps
    /\ nops' = nops + 1
    /\ ret' = got
    /\ files' = files1
    /\ lastagg' = [fn |-> fn, gdirs |-> gdirs, files0 |-> files,
                   logs0 |-> logfile, got |-> got]
    /\ UNCHANGED <<cfgvars, basenames, use_tar_shapefiles, use_compression,
                   lastop, logfile, haslog, errfile, logdir, pc, cur, last,
                   done, ninv, mirrors, cachevars, workers, diagw, tree,
                   lastopen, lastcall,
                   handles>>

AggRunOutput(gdirs) ==
    Aggregate("compile_run_output", gdirs,
              compile_run_output(basenames, files, gdirs, <<>>), files)

AggClimateInput(gdirs) ==
    Aggregate("compile_climate_input", gdirs,
              compile_climate_input(basenames, files, gdirs,
                                    "climate_monthly", <<>>), files)

AggGlacierStatistics(gdirs, inversion_only) ==
    \E r \in {compile_glacier_statistics(basenames, use_tar_shapefiles,
                                         use_compression, files, gdirs,
                                         inversion_only)} :
        Aggregate("compile_glacier_statistics", gdirs, r.got, r.files)

AggTaskLog(gdirs) ==
    Aggregate("compile_task_log", gdirs,
              compile_task_log(logfile, haslog, gdirs, <<"a">>), files)

NextAgg ==
    \/ \E gdirs \in GdirLists : AggRunOutput(gdirs)
    \/ \E gdirs \in GdirLists : AggClimateInput(gdirs)
    \/ \E gdirs \in GdirLists, inversion_only \in BOOLEAN :
           AggGlacierStatistics(gdirs, inversion_only)
    \/ \E gdirs \in GdirLists : AggTaskLog(gdirs)

\* no aggregation called yet
NoAgg == [fn |-> "none", gdirs |-> <<>>, files0 |-> <<>>, logs0 |-> <<>>,
          got |-> NoRet]

\* directories with any artifacts; task a succeeded on X and ran nowhere else
InitAgg ==
    /\ continue_on_error = TRUE
    /\ auto_skip_task = TRUE
    /\ working_dir = TRUE
    /\ basenames = AggRegistry
    /\ use_tar_shapefiles = FALSE
    /\ use_compression = FALSE
    /\ logfile = [e \in Entities |->
                     IF e = "X" THEN log(<<>>, <<"a">>, NoErr) ELSE <<>>]
    /\ haslog = {"X"}
    /\ errfile = [e \in Entities |-> <<>>]
    /\ logdir = FALSE
    /\ pc = "idle"
    /\ cur = Idle
    /\ ret = NoRet
    /\ last = [e \in Entities |-> NoLast]
    /\ done = "none"
    /\ ninv = 0
    /\ files \in [Entities -> AggDirs]
    /\ lastop = NoOp
    /\ nops = 0
    /\ mirrors = {}
    /\ NoCache
    /\ workers = <<>>
    /\ diagw = <<>>
    /\ tree = <<>>
    /\ lastopen = <<>>
    /\ lastagg = NoAgg
    /\ lastcall = <<>>
    /\ handles = <<>>

SpecAgg == InitAgg /\ [][NextAgg]_vars


\* ------------------------------------------------- glacier directories on disk
\* the RGI identifiers of the entities, character by character
RgiId(e) ==
    <<"R", "G", "I", "6", "0", "-", "1", "1", ".", "0", "0">>
        \o (IF e = "X" THEN <<"8", "9", "7">> ELSE <<"7", "8", "7">>)

\* the base_dir argument: None, or a directory of its own
BaseDirs == {"None", "r2"}

\* the setup argument of copy_to_basedir
Setups == {"run", "all", "bad"}

OutlinesShp == <<"outlines", ".", "shp">>
LogTxt == <<"log", ".", "txt">>

\* python: s[:n]
Prefix(s, n) == SubSeq(s, 1, IF n < Len(s) THEN n ELSE Len(s))

\* "base_dir = os.path.join(cfg.PATHS['working_dir'], 'per_glacier')"
base_path(base_dir) ==
    IF base_dir = "None" THEN "wd/per_glacier" ELSE base_dir

\* variant: the directory is named by the identifier alone
gdir_dir_flat(base, rgi_id) == <<base, rgi_id, rgi_id, rgi_id>>

\* os.path.join(base_dir, rgi_id[:8], rgi_id[:11], rgi_id)
gdir_dir(base, rgi_id) == <<base, Prefix(rgi_id, 8), Prefix(rgi_id, 11), rgi_id>>

\* self.rgi_id.split('-')[0][-2:]
rgi_version(rgi_id) ==
    LET i == FirstIdx(rgi_id, "-")
        head == IF i = 0 THEN rgi_id ELSE SubSeq(rgi_id, 1, i - 1)
    IN  SubSeq(head, IF Len(head) > 2 THEN Len(head) - 1 ELSE 1, Len(head))

\* result of an operation on the directories: the error raised, the value
\* returned and the directories afterwards
TreeRaised(err, tr) == [err |-> err, val |-> None, tree |-> tr]
TreeReturned(val, tr) == [err |-> NoErr, val |-> val, tree |-> tr]

\* variant: the reset argument is not looked at
rmtree_if_never(reset, tr, dir) == tr

\* "if reset and os.path.exists(self.dir): shutil.rmtree(self.dir)"
rmtree_if(reset, tr, dir) ==
    IF reset /\ dir \in DOMAIN tr THEN RemoveFile(tr, dir) ELSE tr

\* GlacierDirectory.__init__ from a GeoSeries (by = "entity") or from an
\* RGI id (by = "str"); the handle keeps rgi_id and dir
GlacierDirectory(tr, wd, tar, comp, by, e, base_dir, reset) ==
    LET base == base_path(base_dir)
        shp_dir == gdir_dir(base, RgiId(e))
        rd == IF shp_dir \in DOMAIN tr
              THEN read_shapefile_from_path(tar, comp, tr[shp_dir], e,
                                            Dir(e) \o OutlinesShp)
              ELSE Raised(DriverError, <<>>)
        rgi_id == IF by = "str" THEN rd.val ELSE RgiId(e)
        dir == gdir_dir(base, rgi_id)
        tr1 == rmtree_if(reset, tr, dir)
        tr2 == IF dir \in DOMAIN tr1 THEN tr1 ELSE WriteFile(tr1, dir, <<>>)
    IN  IF base_dir = "None" /\ ~wd
        THEN TreeRaised([cls |-> "ValueError",
                         msg |-> <<"Need a valid PATHS['working_dir']!">>],
                        tr)
        ELSE IF by = "str" /\ rd.err # NoErr THEN TreeRaised(rd.err, tr)
        ELSE IF rgi_version(rgi_id) \notin {<<"5", "0">>, <<"6", "0">>,
                                            <<"6", "1">>}
        THEN TreeRaised([cls |-> "RuntimeError",
                         msg |-> <<"RGI Version not supported: ">>], tr)
        ELSE TreeReturned([rgi_id |-> rgi_id, dir |-> dir], tr2)

\* include_patterns for setup='run': the files whose name holds one of the
\* path names
RunPaths == {"outlines", "climate_monthly"}
KeepFile(setup, name) ==
    setup = "all" \/ \E i \in 1..Len(name) : name[i] \in RunPaths

\* shutil.copytree(src, dst, ignore=...)
copytree(tr, src, dst, setup) ==
    IF dst \in DOMAIN tr
    THEN TreeRaised([cls |-> "FileExistsError", msg |-> <<>>], tr)
    ELSE TreeReturned(None,
             WriteFile(tr, dst,
                       [n \in {m \in DOMAIN tr[src] : KeepFile(setup, m)} |->
                           tr[src][n]]))

\* the function copy_to_basedir that entity_task decorates
copy_to_basedir(tr, wd, tar, comp, e, src, base_dir, setup) ==
    LET new_dir == gdir_dir(base_dir, RgiId(e))
        c == copytree(tr, src, new_dir, setup)
    IN  IF setup \notin {"run", "inversion", "all"}
        THEN TreeRaised([cls |-> "ValueError",
                         msg |-> <<"setup not understood: ", setup>>], tr)
        ELSE IF c.err # NoErr THEN c
        ELSE GlacierDirectory(c.tree, wd, tar, comp, "str", e, base_dir,
                              FALSE)

\* a directory with a record appended to its log.txt
LogIn(tr, dir, task_name, err) ==
    WriteFile(tr, dir,
              WriteFile(tr[dir], LogTxt,
                        log(IF LogTxt \in DOMAIN tr[dir]
                            THEN tr[dir][LogTxt] ELSE <<>>,
                            task_name, err)))

\* no construction yet
NoOpen == [op |-> "none", by |-> "", gdir |-> "X", base |-> "", setup |-> "",
           reset |-> FALSE, out |-> "none", got |-> NoRet, tree0 |-> <<>>,
           tree1 |-> <<>>]

\* the driver constructs GlacierDirectory(rgi_entity, base_dir, reset)
Open(e, by, base_dir, reset) ==
    /\ nops < MaxOps
    /\ nops' = nops + 1
    /\ LET r == GlacierDirectory(tree, working_dir, use_tar_shapefiles,
                                 use_compression, by, e, base_dir, reset)
           got == IF r.err # NoErr
                  THEN [kind |-> "raise", val |-> None, err |-> r.err]
                  ELSE [kind |-> "return", val |-> r.val, err |-> NoErr]
       IN  /\ tree' = r.tree
           /\ ret' = got
           /\ lastopen' = [op |-> "init", by |-> by, gdir |-> e,
                           base |-> base_dir, setup |-> "", reset |-> reset,
                           out |-> IF r.err = NoErr THEN "ok" ELSE "fail",
                           got |-> got, tree0 |-> tree, tree1 |-> tree']
    /\ UNCHANGED <<cfgvars, basenames, use_tar_shapefiles, use_compression,
                   files, lastop, logfile, haslog, errfile, logdir, pc, cur,
                   last, done, ninv, mirrors, cachevars, workers, diagw,
                   lastagg, lastcall,
                   handles>>

\* a task writes the outlines of e into its directory under base_dir
WriteOutlines(e, base_dir) ==
    LET dir == gdir_dir(base_path(base_dir), RgiId(e))
    IN  /\ dir \in DOMAIN tree
        /\ tree' = WriteFile(tree, dir,
                       write_shapefile(basenames, use_tar_shapefiles,
                                       use_compression, tree[dir], e,
                                       RgiId(e), "outlines", <<>>).files)
        /\ UNCHANGED <<cfgvars, storevars, logfile, haslog, errfile, logdir,
                       pc, cur, ret, last, done, ninv, mirrors, cachevars,
                       workers, diagw, lastopen, lastagg, lastcall,
                   handles>>

\* the driver calls the entity task copy_to_basedir(gdir, base_dir=...,
\* setup=..., reset=...) on the directory of e under the working directory
CopyToBasedir(e, base_dir, setup, resetArg) ==
    LET src == gdir_dir(base_path("None"), RgiId(e))
        task_name == <<"copy_to_basedir">>
        reset == EffectiveReset(resetArg, auto_skip_task)
        s == get_task_status(LogTxt \in DOMAIN tree[src],
                             IF LogTxt \in DOMAIN tree[src]
                             THEN tree[src][LogTxt] ELSE <<>>, task_name)
        r == copy_to_basedir(tree, working_dir, use_tar_shapefiles,
                             use_compression, e, src, base_dir, setup)
        out == IF SkipTask(reset, s) THEN "skip"
               ELSE IF r.err = NoErr THEN "ok" ELSE "fail"
        got == CASE out = "skip" -> SuccessResult(None)
                 [] out = "ok" -> SuccessResult(r.val)
                 [] out = "fail" -> FailureResult(continue_on_error, r.err)
    IN  /\ working_dir
        /\ src \in DOMAIN tree
        /\ nops < MaxOps
        /\ nops' = nops + 1
        /\ tree' = IF out = "skip" THEN tree
                   ELSE LogIn(r.tree, src, task_name, r.err)
        /\ errfile' = IF out = "fail"
                      THEN [errfile EXCEPT
                               ![e] = pipe_log(working_dir, @, task_name,
                                               r.err)]
                      ELSE errfile
        /\ logdir' = IF out = "fail"
                     THEN pipe_log_mkdir(working_dir, logdir) ELSE logdir
        /\ mirrors' = IF out = "fail"
                      THEN mirrors \cup pipe_log_fpath(working_dir, e, r.err)
                      ELSE mirrors
        /\ ret' = got
        /\ lastopen' = [op |-> "copy", by |-> "str", gdir |-> e,
                        base |-> base_dir, setup |-> setup, reset |-> reset,
                        out |-> out, got |-> got, tree0 |-> tree,
                        tree1 |-> tree']
        /\ UNCHANGED <<cfgvars, basenames, use_tar_shapefiles,
                       use_compression, files, lastop, logfile, haslog, pc,
                       cur, last, done, ninv, cachevars, workers, diagw,
                       lastagg, lastcall,
                   handles>>

NextDirs ==
    \/ \E e \in Entities, by \in {"entity", "str"}, base_dir \in BaseDirs,
          reset \in BOOLEAN : Open(e, by, base_dir, reset)
    \/ \E e \in Entities, base_dir \in BaseDirs : WriteOutlines(e, base_dir)
    \/ \E e \in Entities, setup \in Setups, r \in {"None", "True"} :
           CopyToBasedir(e, "r2", setup, r)

\* the directories under the working directory before the first call: none,
\* or the directory of X, empty or with its outlines
InitTrees(tar, comp) ==
    LET dir == gdir_dir(base_path("None"), RgiId("X"))
    IN  {<<>>, WriteFile(<<>>, dir, <<>>),
         WriteFile(<<>>, dir,
                   write_shapefile(GoodRegistry, tar, comp, <<>>, "X",
                                   RgiId("X"), "outlines", <<>>).files)}

InitDirs ==
    /\ InitWith(/\ continue_on_error \in BOOLEAN
                /\ auto_skip_task = TRUE
                /\ working_dir \in BOOLEAN
                /\ basenames = GoodRegistry
                /\ use_tar_shapefiles \in BOOLEAN
                /\ use_compression = FALSE
                /\ NoCache)
    /\ tree \in InitTrees(use_tar_shapefiles, use_compression)
    /\ ~working_dir => tree = <<>>
    /\ lastopen = NoOpen
    /\ workers = <<>>
    /\ diagw = <<>>
    /\ lastagg = <<>>
    /\ lastcall = <<>>
    /\ handles = <<>>

SpecDirs == InitDirs /\ [][NextDirs]_vars


\* ------------------------------------------------ the runner, call by call
\* an Exception whose message spans two lines
MultiLineError == [cls |-> "ValueError", msg |-> <<"x", "\n", "y">>]

\* the exceptions the task functions of this slice raise
RunnerErrors == {[cls |-> "RuntimeError", msg |-> <<"x">>], MultiLineError}

\* no entity task called yet
NoCall == [gdir |-> "X", func |-> <<>>, resetArg |-> "None",
           auto_skip |-> FALSE, s |-> None, k |-> 0, files0 |-> <<>>,
           mirrors0 |-> {}, logdir0 |-> FALSE, haslog0 |-> {}, nops0 |-> 0]

\* the driver calls task_func(gdir, reset=resetArg): the arguments, the
\* status the call finds and the files it finds are remembered
Call(e, func, resetArg) ==
    /\ EntityTask(e, func, resetArg, <<>>, <<>>)
    /\ lastcall' = [gdir |-> e, func |-> func, resetArg |-> resetArg,
                    auto_skip |-> auto_skip_task,
                    s |-> get_task_status(e \in haslog, logfile[e], func),
                    k |-> ninv + 1, files0 |-> files,
                    mirrors0 |-> mirrors, logdir0 |-> logdir,
                    haslog0 |-> haslog, nops0 |-> nops]

\* the computation ends: it returns, raises an Exception or is interrupted
TaskEnds ==
    \/ TaskReturns(TaskValue(cur.func))
    \/ \E err \in RunnerErrors : TaskRaises(err)
    \/ TaskInterrupted

\* entity tasks whose function writes the diagnostics of its directory
NextRunner ==
    \/ \E e \in Entities, r \in ResetArgs : Call(e, <<"a">>, r)
    \/ \E op \in {"read_json", "write_json"} :
           TaskStoreCall(op, "diagnostics", <<>>, <<"v1">>, "None")
    \/ TaskEnds
    \/ FailureExit

\* every policy and every skip setting, with a working directory
InitRunner ==
    /\ InitWith(/\ continue_on_error \in BOOLEAN
                /\ auto_skip_task \in BOOLEAN
                /\ working_dir = TRUE
                /\ basenames = GoodRegistry
                /\ use_tar_shapefiles = FALSE
                /\ use_compression = FALSE
                /\ NoCache)
    /\ workers = <<>>
    /\ diagw = <<>>
    /\ tree = <<>>
    /\ lastopen = <<>>
    /\ lastagg = <<>>
    /\ lastcall = NoCall
    /\ handles = <<>>

SpecRunner == InitRunner /\ [][NextRunner]_vars

\* a computation that was started ends, and what follows its end in
\* _entity_task is sequential code
SpecRunnerLive ==
    /\ SpecRunner
    /\ WF_vars(TaskEnds)
    /\ WF_vars(FailureExit)


\* ----------------------------------------- diagnostics, one call at a time
\* a dict with values is written as the sequence key, value, key, value, ...
NoteKeys == {"k0", "k1"}
NoteValues == {"v0", "v1"}

\* what diagnostics.json is before the calls: missing, {} or a dict
NoteFiles0 ==
    {<<>>, WriteFile(<<>>, DiagFile, json_dump(<<>>)),
     WriteFile(<<>>, DiagFile, json_dump(<<"k0", "v0">>)),
     WriteFile(<<>>, DiagFile, json_dump(<<"k1", "v1", "k0", "v0">>))}

\* variant: "d = {key: value}"
dict_setitem_fresh(d, key, value) == <<key, value>>

\* python: d[key] = value
dict_setitem(d, key, value) ==
    IF \E i \in 1..Len(d) : i % 2 = 1 /\ d[i] = key
    THEN [i \in 1..Len(d) |->
             IF i % 2 = 0 /\ d[i - 1] = key THEN value ELSE d[i]]
    ELSE d \o <<key, value>>

\* GlacierDirectory.add_to_diagnostics(key, value)
add_to_diagnostics(reg, tar, comp, dirfiles, e, key, value) ==
    LET g == get_diagnostics(reg, tar, comp, dirfiles, e)
        fp == get_filepath(reg, g.files, e, "diagnostics", FALSE, <<>>)
    IN  IF g.err # NoErr THEN g
        ELSE Returned(None,
                 WriteFile(open_w(g.files, Rel(e, fp.val)), Rel(e, fp.val),
                           json_dump(dict_setitem(g.val, key, value))))

\* the driver calls gdir.add_to_diagnostics(key, value)
AddToDiagnostics(e, key, value) ==
    /\ nops < MaxOps
    /\ nops' = nops + 1
    /\ \E r \in {add_to_diagnostics(basenames, use_tar_shapefiles,
                                    use_compression, files[e], e, key,
                                    value)} :
           /\ files' = [files EXCEPT ![e] = r.files]
           /\ ret' = IF r.err # NoErr
                     THEN [kind |-> "raise", val |-> None, err |-> r.err]
                     ELSE [kind |-> "return", val |-> r.val, err |-> NoErr]
           /\ lastop' = [NoOp EXCEPT !.op = "add_to_diagnostics",
                                     !.gdir = e, !.key = key,
                                     !.var = <<value>>, !.err = r.err,
                                     !.files0 = files[e], !.got = ret']
    /\ UNCHANGED <<cfgvars, basenames, use_tar_shapefiles, use_compression,
                   logfile, haslog, errfile, logdir, pc, cur, last, done,
                   ninv, mirrors, cachevars, auxvars>>

\* the driver calls gdir.get_diagnostics()
GetDiagnostics(e) ==
    /\ nops < MaxOps
    /\ nops' = nops + 1
    /\ \E r \in {get_diagnostics(basenames, use_tar_shapefiles,
                                 use_compression, files[e], e)} :
           /\ files' = [files EXCEPT ![e] = r.files]
           /\ ret' = IF r.err # NoErr
                     THEN [kind |-> "raise", val |-> None, err |-> r.err]
                     ELSE [kind |-> "return", val |-> r.val, err |-> NoErr]
           /\ lastop' = [NoOp EXCEPT !.op = "get_diagnostics", !.gdir = e,
                                     !.err = r.err, !.files0 = files[e],
                                     !.got = ret']
    /\ UNCHANGED <<cfgvars, basenames, use_tar_shapefiles, use_compression,
                   logfile, haslog, errfile, logdir, pc, cur, last, done,
                   ninv, mirrors, cachevars, auxvars>>

NextNotes ==
    \/ \E e \in Entities, key \in NoteKeys, value \in NoteValues :
           AddToDiagnostics(e, key, value)
    \/ \E e \in Entities : GetDiagnostics(e)

\* directories with and without diagnostics, under either packaging of
\* shapefiles
InitNotes ==
    /\ continue_on_error = FALSE
    /\ auto_skip_task = TRUE
    /\ working_dir = TRUE
    /\ basenames = GoodRegistry
    /\ use_tar_shapefiles \in BOOLEAN
    /\ use_compression = FALSE
    /\ logfile = [e \in Entities |-> <<>>]
    /\ haslog = {}
    /\ errfile = [e \in Entities |-> <<>>]
    /\ logdir = FALSE
    /\ pc = "idle"
    /\ cur = Idle
    /\ ret = NoRet
    /\ last = [e \in Entities |-> NoLast]
    /\ done = "none"
    /\ ninv = 0
    /\ files \in [Entities -> NoteFiles0]
    /\ lastop = NoOp
    /\ nops = 0
    /\ mirrors = {}
    /\ NoCache /\ NoAux

SpecNotes == InitNotes /\ [][NextNotes]_vars


\* ---------------------------------------------------------- lazy attributes
\* cfg.BASENAMES with the georeferencing file the grid is read from
LazyRegistry ==
    [k \in DOMAIN GoodRegistry \cup {"glacier_grid"} |->
        IF k = "glacier_grid" THEN <<"glacier_grid", ".", "json">>
        ELSE GoodRegistry[k]]

\* the lazy attributes, the artifact each is computed from, and the
\* instances the driver holds
LazyAttrs == {"grid", "rgi_area_km2"}
Instances == 1..2

\* hasattr(self, '_lazy_<name>') is false
Unset == <<"unset">>

\* a GlacierDirectory instance right after __init__
NewInstance == [a \in LazyAttrs |-> Unset]

\* the function a lazy attribute wraps: the grid is read from
\* get_filepath('glacier_grid'), the area from the outlines
Compute(attr, reg, tar, comp, dirfiles, e) ==
    IF attr = "grid" THEN read_json(reg, dirfiles, e, "glacier_grid", <<>>)
    ELSE rgi_area_km2(reg, tar, comp, dirfiles, e)

\* variant: a plain property, computed at every access
lazy_property_plain(cached, r) ==
    [got |-> r, cache |-> IF r.err = NoErr THEN r.val ELSE cached]

\* lazy_property: the wrapped function runs if the instance has no
\* '_lazy_<name>' yet and its value is kept; an error leaves nothing behind
lazy_property(cached, r) ==
    IF cached # Unset
    THEN [got |-> Returned(cached, r.files), cache |-> cached]
    ELSE IF r.err # NoErr THEN [got |-> r, cache |-> Unset]
    ELSE [got |-> r, cache |-> r.val]

\* the driver constructs an instance for directory X anew
Construct(h) ==
    /\ nops < MaxOps
    /\ nops' = nops + 1
    /\ handles' = [handles EXCEPT ![h] = [inst |-> NewInstance,
                                          first |-> NewInstance]]
    /\ lastop' = [NoOp EXCEPT !.op = "__init__", !.k = h]
    /\ UNCHANGED <<cfgvars, basenames, use_tar_shapefiles, use_compression,
                   files, ret, logfile, haslog, errfile, logdir, pc, cur,
                   last, done, ninv, mirrors, cachevars, workers, diagw,
                   tree, lastopen, lastagg, lastcall>>

\* a task writes the artifact a lazy attribute is computed from
Produce(attr, var) ==
    /\ nops < MaxOps
    /\ nops' = nops + 1
    /\ \E r \in {IF attr = "grid"
                 THEN write_json(basenames, files["X"], "X", var,
                                 "glacier_grid", <<>>)
                 ELSE write_shapefile(basenames, use_tar_shapefiles,
                                      use_compression, files["X"], "X", var,
                                      "outlines", <<>>)} :
           /\ files' = [files EXCEPT !["X"] = r.files]
           /\ lastop' = [NoOp EXCEPT !.op = "write", !.key = attr,
                                     !.var = var, !.err = r.err,
                                     !.files0 = files["X"]]
    /\ UNCHANGED <<cfgvars, basenames, use_tar_shapefiles, use_compression,
                   ret, logfile, haslog, errfile, logdir, pc, cur, last,
                   done, ninv, mirrors, cachevars, auxvars>>

\* the driver reads gdir.<attr> on instance h; lastop remembers the value
\* of the first successful access before this one, and the files
Access(h, attr) ==
    /\ \E p \in {lazy_property(handles[h].inst[attr],
                               Compute(attr, basenames, use_tar_shapefiles,
                                       use_compression, files["X"], "X"))} :
           /\ ret' = IF p.got.err # NoErr
                     THEN [kind |-> "raise", val |-> None,
                           err |-> p.got.err]
                     ELSE [kind |-> "return", val |-> p.got.val,
                           err |-> NoErr]
           /\ handles' = [handles EXCEPT
                             ![h].inst[attr] = p.cache,
                             ![h].first[attr] =
                                 IF @ = Unset /\ p.got.err = NoErr
                                 THEN p.got.val ELSE @]
           /\ lastop' = [NoOp EXCEPT !.op = "access", !.key = attr,
                                     !.k = h, !.got = ret',
                                     !.var = handles[h].first[attr],
                                     !.files0 = files["X"]]
    /\ UNCHANGED <<cfgvars, basenames, use_tar_shapefiles, use_compression,
                   files, nops, logfile, haslog, errfile, logdir, pc, cur,
                   last, done, ninv, mirrors, cachevars, workers, diagw,
                   tree, lastopen, lastagg, lastcall>>

NextLazy ==
    \/ \E h \in Instances : Construct(h)
    \/ \E attr \in LazyAttrs, var \in Values : Produce(attr, var)
    \/ \E h \in Instances, attr \in LazyAttrs : Access(h, attr)

\* directory X before define_glacier_region ran on it, or with a grid and
\* outlines; two instances just constructed
LazyFiles0(tar, comp) ==
    {<<>>,
     write_shapefile(LazyRegistry, tar, comp,
                     write_json(LazyRegistry, <<>>, "X", <<"v1">>,
                                "glacier_grid", <<>>).files,
                     "X", <<"v1">>, "outlines", <<>>).files}

InitLazy ==
    /\ continue_on_error = FALSE
    /\ auto_skip_task = TRUE
    /\ working_dir = TRUE
    /\ basenames = LazyRegistry
    /\ use_tar_shapefiles \in BOOLEAN
    /\ use_compression = FALSE
    /\ logfile = [e \in Entities |-> <<>>]
    /\ haslog = {}
    /\ errfile = [e \in Entities |-> <<>>]
    /\ logdir = FALSE
    /\ pc = "idle"
    /\ cur = Idle
    /\ ret = NoRet
    /\ last = [e \in Entities |-> NoLast]
    /\ done = "none"
    /\ ninv = 0
    /\ \E f0 \in LazyFiles0(use_tar_shapefiles, use_compression) :
           files = [e \in Entities |-> IF e = "X" THEN f0 ELSE <<>>]
    /\ lastop = NoOp
    /\ nops = 0
    /\ mirrors = {}
    /\ NoCache
    /\ workers = <<>>
    /\ diagw = <<>>
    /\ tree = <<>>
    /\ lastopen = <<>>
    /\ lastagg = <<>>
    /\ lastcall = <<>>
    /\ handles = [h \in Instances |->
                     [inst |-> NewInstance, first |-> NewInstance]]

SpecLazy == InitLazy /\ [][NextLazy]_vars


\* --------------------------------------------- directories with a history
\* the working directory after copy_to_basedir succeeded on X: the
\* directory of X with its outlines and the success record, and its copy
HistoryTree(tar, comp) ==
    LET src == gdir_dir(base_path("None"), RgiId("X"))
        t0 == WriteFile(<<>>, src,
                        write_shapefile(GoodRegistry, tar, comp, <<>>, "X",
                                        RgiId("X"), "outlines", <<>>).files)
        c == copy_to_basedir(t0, TRUE, tar, comp, "X", src, "r2", "all")
    IN  LogIn(c.tree, src, <<"copy_to_basedir">>, NoErr)

NextReset ==
    \/ \E e \in Entities, by \in {"entity", "str"}, reset \in BOOLEAN :
           Open(e, by, "None", reset)
    \/ \E e \in Entities : WriteOutlines(e, "None")
    \/ \E e \in Entities, r \in {"None", "False"} :
           CopyToBasedir(e, "r2", "all", r)

InitReset ==
    /\ InitWith(/\ continue_on_error \in BOOLEAN
                /\ auto_skip_task = TRUE
                /\ working_dir = TRUE
                /\ basenames = GoodRegistry
                /\ use_tar_shapefiles \in BOOLEAN
                /\ use_compression = FALSE
                /\ NoCache)
    /\ tree = HistoryTree(use_tar_shapefiles, use_compression)
    /\ lastopen = NoOpen
    /\ workers = <<>>
    /\ diagw = <<>>
    /\ lastagg = <<>>
    /\ lastcall = <<>>
    /\ handles = <<>>

SpecReset == InitReset /\ [][NextReset]_vars


\* ------------------------------------------------- reading the Status Log
\* number of lines of a file
NumLines(content) == Len(readlines(content))

\* the records of a log: its lines without their newline
Records(content) ==
    LET ls == readlines(content)
    IN  [i \in 1..Len(ls) |-> StripNewlines(ls[i])]

\* "<timestamp>;<task_name>;<outcome>": what follows the timestamp
AfterStamp(l) == SubSeq(l, FirstIdx(l, ";") + 1, Len(l))

\* the task-name field of a record
RecName(l) ==
    LET r == AfterStamp(l) IN SubSeq(r, 1, FirstIdx(r, ";") - 1)

\* the outcome field of a record (everything after the task name)
RecOutcome(l) ==
    LET r == AfterStamp(l) IN SubSeq(r, FirstIdx(r, ";") + 1, Len(r))

\* index of the last record of a log whose task-name field is name, 0 if none
LastRecordOf(content, name) ==
    LET rs == Records(content)
        S == {i \in 1..Len(rs) : RecName(rs[i]) = name}
    IN  IF S = {} THEN 0 ELSE CHOOSE i \in S : \A j \in S : j <= i

\* the last record of exactly this task name is a success record
ExactLastIsSuccess(content, name) ==
    LET i == LastRecordOf(content, name)
    IN  i # 0 /\ RecOutcome(Records(content)[i]) = <<"SUCCESS">>

\* number of success records of a log
SuccessCount(content) ==
    LET rs == Records(content)
    IN  Cardinality({i \in 1..Len(rs) : RecOutcome(rs[i]) = <<"SUCCESS">>})

\* the effective task names the driver can use
TaskNames == {TaskName(f, fs, <<>>) : f \in TaskFuncs, fs \in Suffixes}

\* the finished invocations
FinishedOn == {e \in Entities : last[e].out # "none"}

\* ------------------------------------------------------------------ claims

\* C1 as stated: two invocations of a task on an entity, none of them
\* forced, append exactly one line together and the second one is skipped.
C1_TwoCallsOneLine ==
    \A e \in FinishedOn :
        (/\ last[e].prev.out # "none"
         /\ last[e].prev.task_name = last[e].task_name
         /\ ~last[e].prev.forced
         /\ ~last[e].forced)
        => /\ last[e].out = "skip"
           /\ NumLines(last[e].log1) = NumLines(last[e].prev.log0) + 1

\* C1 amended: when the first of two unforced invocations ran its
\* computation and it returned, the second is skipped without running the
\* computation and the two together append exactly one line.
C1_IdempotentSkip ==
    \A e \in FinishedOn :
        (/\ last[e].prev.out = "ok"
         /\ last[e].prev.task_name = last[e].task_name
         /\ ~last[e].prev.forced
         /\ ~last[e].forced)
        => /\ last[e].out = "skip"
           /\ NumLines(last[e].log1) = NumLines(last[e].prev.log0) + 1
           /\ last[e].log1 = last[e].prev.log1

C1_Witness ==
    \E e \in FinishedOn :
        /\ last[e].prev.out = "ok"
        /\ last[e].prev.task_name = last[e].task_name
        /\ ~last[e].prev.forced
        /\ ~last[e].forced
        /\ last[e].out = "skip"

\* C2: an invocation is skipped if and only if it is not forced and the
\* last record of exactly its task name is a success record.
C2_SkipIffExactSuccess ==
    /\ \A e \in FinishedOn :
           (last[e].out = "skip")
           <=> (~last[e].forced
                /\ ExactLastIsSuccess(last[e].log0, last[e].task_name))
    /\ pc # "idle"
       => ~(~cur.reset /\ ExactLastIsSuccess(cur.log0, cur.task_name))

\* C3: get_task_status(q) is the outcome of the last record whose task-name
\* field equals q, and None when there is no such record.
C3_ExactNameMatch ==
    \A e \in Entities : \A q \in TaskNames :
        LET i == LastRecordOf(logfile[e], q)
            s == get_task_status(e \in haslog, logfile[e], q)
        IN  IF i = 0 THEN s = None
            ELSE s = SplitLast(Records(logfile[e])[i])

\* C4: the task name is the function name followed by the suffix, and the
\* record that lets an invocation be skipped is never a record of the same
\* function under another suffix.
C4_SuffixIndependent ==
    \A e \in FinishedOn :
        /\ last[e].task_name = last[e].func \o last[e].fsuffix
        /\ last[e].out = "skip"
           => LET m == LinesWith(last[e].task_name, Records(last[e].log0))
              IN  RecName(m[Len(m)]) \notin
                      {last[e].func \o sfx :
                           sfx \in Suffixes \ {last[e].fsuffix}}

C6_NoFalseSuccess ==
    /\ pc = "running"
       => /\ logfile[cur.gdir] = cur.log0
          /\ errfile[cur.gdir] = cur.err0
    /\ pc = "logged_failure"
       => SuccessCount(logfile[cur.gdir]) = SuccessCount(cur.log0)
    /\ \A e \in FinishedOn :
           SuccessCount(last[e].log1) =
               SuccessCount(last[e].log0)
                   + (IF last[e].out = "ok" THEN 1 ELSE 0)
    /\ \A e \in Entities :
           (pc = "idle" \/ cur.gdir # e) => logfile[e] = last[e].log1

C6_Witness ==
    \E e \in FinishedOn :
        /\ last[e].out = "interrupted"
        /\ last[e].prev.out = "ok"
        /\ SuccessCount(logfile[e]) = 1

\* C7: under continue_on_error a failed invocation returns None, and an
\* invocation on an entity finds and leaves that entity's files as its own
\* invocations made them, whatever happened on other entities.
C7_FailureIsolation ==
    /\ \A e \in FinishedOn :
           (continue_on_error /\ pc = "idle" /\ done = e
                /\ last[e].out = "fail")
           => ret = [kind |-> "return", val |-> None, err |-> NoErr]
    /\ \A y \in Entities :
           (pc = "idle" \/ cur.gdir # y)
           => /\ logfile[y] = last[y].log1
              /\ errfile[y] = last[y].err1
    /\ \A y \in FinishedOn :
           /\ last[y].log0 = last[y].prev.log1
           /\ last[y].err0 = last[y].prev.err1
           /\ (last[y].out = "skip")
              <=> SkipTask(last[y].forced,
                           get_task_status(last[y].log0 # <<>>,
                                           last[y].log0, last[y].task_name))

C7_Witness ==
    /\ continue_on_error
    /\ last["X"].out = "fail"
    /\ last["Y"].out = "ok"
    /\ last["Y"].k > last["X"].k
    /\ pc = "idle"
    /\ ret.val = <<"v1">>

\* C8 as stated: whenever the computation raised, a failure record is in
\* log.txt and a line is in the mirror file before the invocation ends.
C8_FailureAlwaysMirrored ==
    /\ pc = "logged_failure"
       => /\ logfile[cur.gdir] = log(cur.log0, cur.task_name, cur.err)
          /\ NumLines(errfile[cur.gdir]) = NumLines(cur.err0) + 1
    /\ \A e \in FinishedOn :
           last[e].out = "fail"
           => /\ last[e].log1 = log(last[e].log0, last[e].task_name,
                                    last[e].err)
              /\ NumLines(last[e].err1) = NumLines(last[e].err0) + 1

\* the line pipe_log writes for a failure
MirrorLine(task_name, err) ==
    <<"ts", "; ">> \o task_name \o <<"; ", err.cls, "; ">> \o err.msg
        \o <<"\n">>

\* C8 amended: whenever the computation raised an Exception, under either
\* policy, the failure record is in log.txt before the invocation ends, and
\* the mirror file has one more line if working_dir is set and is untouched
\* if it is not.
C8_FailureRecorded ==
    /\ pc = "logged_failure"
       => /\ logfile[cur.gdir] = log(cur.log0, cur.task_name, cur.err)
          /\ RecOutcome(LogLine(cur.task_name, cur.err)) # <<"SUCCESS">>
          /\ errfile[cur.gdir] =
                 IF working_dir
                 THEN cur.err0 \o MirrorLine(cur.task_name, cur.err)
                 ELSE cur.err0
    /\ \A e \in FinishedOn :
           last[e].out = "fail"
           => /\ last[e].log1 = log(last[e].log0, last[e].task_name,
                                    last[e].err)
              /\ last[e].err1 =
                     IF working_dir
                     THEN last[e].err0
                              \o MirrorLine(last[e].task_name, last[e].err)
                     ELSE last[e].err0

C8_Witness ==
    /\ pc = "logged_failure"
    /\ working_dir
    /\ ~continue_on_error
    /\ errfile[cur.gdir] # <<>>

\* the errors get_filepath raises
IsStoreError(err) == err.cls \in {"ValueError", "AssertionError"}

\* C9 as stated: a store-level error raised inside an entity task or inside
\* compile_run_output reaches the caller of the task or of the function.
C9_StoreErrorPropagates ==
    /\ \A e \in FinishedOn :
           (IsStoreError(last[e].err) /\ pc = "idle" /\ done = e
                /\ lastop.k = last[e].k)
           => ret = [kind |-> "raise", val |-> None, err |-> last[e].err]
    /\ (lastop.op = "compile_run_output" /\ IsStoreError(lastop.err))
       => lastop.got = [kind |-> "raise", val |-> None, err |-> lastop.err]

\* C9 amended: a store-level error reaches the code that called the store
\* operation.  A task function that does not catch it fails with it: the
\* runner logs the failure and then re-raises it under fail-fast but
\* returns None under continue-on-error.  compile_run_output catches it
\* for every directory and raises "Found no valid glaciers!" instead.
C9_StoreErrorHandled ==
    /\ (lastop.intask /\ lastop.err # NoErr /\ pc # "idle"
            /\ cur.k = lastop.k)
       => pc = "logged_failure" /\ cur.err = lastop.err
    /\ \A e \in FinishedOn :
           (lastop.intask /\ lastop.err # NoErr /\ lastop.k = last[e].k)
           => /\ last[e].out = "fail"
              /\ last[e].err = lastop.err
              /\ last[e].log1 = log(last[e].log0, last[e].task_name,
                                    lastop.err)
              /\ (pc = "idle" /\ done = e /\ ret.kind # "none"
                      /\ lastop.op # "compile_run_output")
                 => ret = IF continue_on_error
                          THEN [kind |-> "return", val |-> None,
                                err |-> NoErr]
                          ELSE [kind |-> "raise", val |-> None,
                                err |-> lastop.err]
    /\ (lastop.op = "compile_run_output" /\ IsStoreError(lastop.err))
       => lastop.got = [kind |-> "raise", val |-> None,
                        err |-> [cls |-> "RuntimeError",
                                 msg |-> <<"Found no valid glaciers!">>]]

C9_Witness ==
    /\ continue_on_error
    /\ pc = "idle"
    /\ lastop.intask
    /\ IsStoreError(lastop.err)
    /\ last[lastop.gdir].k = lastop.k
    /\ ret = [kind |-> "return", val |-> None, err |-> NoErr]

\* C10: a store operation called with a key that is not in the registry
\* raises the unknown-key error to its caller and leaves the files of the
\* directory as they were.
C10_UnknownKeyRejected ==
    (lastop.op \in StoreOps /\ lastop.key \notin DOMAIN basenames)
    => /\ lastop.err = ValueError(lastop.key)
       /\ lastop.got = [kind |-> "raise", val |-> None,
                        err |-> ValueError(lastop.key)]
       /\ ret = lastop.got
       /\ files[lastop.gdir] = lastop.files0
       /\ \A e \in Entities \ {lastop.gdir} : files[e] = <<>>

C10_Witness ==
    /\ lastop.op = "write_pickle"
    /\ lastop.key \notin DOMAIN basenames
    /\ lastop.files0 # <<>>
    /\ ret.kind = "raise"

\* s is a prefix of t
IsPrefix(s, t) == Len(s) <= Len(t) /\ SubSeq(t, 1, Len(s)) = s

\* C11: every step of the runner and every direct append leaves the old
\* log.txt of every entity as a prefix of the new one, and log.txt never
\* disappears: no line is rewritten, reordered, compacted or deleted.
C11_AppendOnly ==
    [][\A e \in Entities :
           /\ IsPrefix(logfile[e], logfile'[e])
           /\ e \in haslog => e \in haslog']_vars

C11_Witness ==
    /\ NumLines(logfile["X"]) = 4
    /\ lastop.op = "log"
    /\ last["X"].out = "fail"
    /\ last["X"].forced
    /\ last["X"].prev.out = "ok"

\* C19: when the computation of an invocation that was not skipped
\* returns v, the caller gets exactly v and log.txt is the old log.txt
\* followed by exactly one success record of the effective task name.
C19_SuccessPassThrough ==
    \A e \in FinishedOn :
        last[e].out = "ok"
        => /\ (pc = "idle" /\ done = e)
              => ret = [kind |-> "return", val |-> TaskValue(last[e].func),
                        err |-> NoErr]
           /\ last[e].log1 =
                  last[e].log0 \o <<"ts", ";">> \o last[e].task_name
                      \o <<";", "SUCCESS", "\n">>
           /\ LET r1 == Records(last[e].log1)
              IN  /\ Len(r1) = NumLines(last[e].log0) + 1
                  /\ RecName(r1[Len(r1)]) = last[e].task_name
                  /\ RecOutcome(r1[Len(r1)]) = <<"SUCCESS">>

C19_Witness ==
    \E e \in FinishedOn :
        /\ last[e].out = "ok"
        /\ TaskValue(last[e].func) = <<"v1">>
        /\ last[e].log0 # <<>>
        /\ pc = "idle"
        /\ done = e
        /\ ret.val = <<"v1">>

\* C20: an invocation that returned, was skipped or was interrupted leaves
\* the mirror file of its entity as it found it, nothing but an invocation
\* touches a mirror file, the only files of <working_dir>/log are .ERROR
\* files of entities with a mirrored failure, and pipe_log called without
\* an error opens and writes no file.
C20_MirrorOnlyOnFailure ==
    /\ \A e \in FinishedOn :
           /\ last[e].out \in {"ok", "skip", "interrupted"}
              => last[e].err1 = last[e].err0
           /\ last[e].err0 = last[e].prev.err1
    /\ \A e \in Entities :
           /\ (pc = "idle" \/ cur.gdir # e) => errfile[e] = last[e].err1
           /\ (pc = "running" /\ cur.gdir = e) => errfile[e] = cur.err0
           /\ (<<e, ".ERROR">> \in mirrors) <=> (errfile[e] # <<>>)
           /\ errfile[e] # <<>> => logdir
           /\ \A wd \in BOOLEAN, task_name \in TaskNames :
                  /\ pipe_log(wd, errfile[e], task_name, NoErr) = errfile[e]
                  /\ pipe_log_fpath(wd, e, NoErr) = {}
    /\ mirrors \subseteq {<<e, ".ERROR">> : e \in Entities}

C20_Witness ==
    /\ working_dir
    /\ last["X"].out = "ok"
    /\ last["X"].prev.out = "fail"
    /\ errfile["X"] # <<>>
    /\ mirrors = {<<"X", ".ERROR">>}
    /\ pc = "idle"

\* ----------------------------------------------------- claims on the store
\* the operation that writes what a read operation reads
WriterOf(op) ==
    CASE op = "read_pickle" -> "write_pickle"
      [] op = "read_json" -> "write_json"
      [] op = "read_text" -> "write_text"
      [] op = "read_shapefile" -> "write_shapefile"
      [] OTHER -> "none"

\* the last operation reads back what the operation before it wrote: same
\* directory, key, suffix, format and compression argument
ReadBack ==
    /\ lastop.op \in {"read_pickle", "read_json", "read_text"}
    /\ lastop.prev.op = WriterOf(lastop.op)
    /\ lastop.prev.err = NoErr
    /\ lastop.prev.gdir = lastop.gdir
    /\ lastop.prev.key = lastop.key
    /\ lastop.prev.sfx = lastop.sfx
    /\ lastop.prev.uc = lastop.uc

Archived(o) ==
    use_tar_shapefiles /\ o.op = "write_shapefile" /\ o.err = NoErr

\* the names of the archive and of the loose files of a shapefile artifact
ArchiveName(key, sfx) ==
    <<key>> \o sfx \o <<".", "tar">>
        \o (IF use_compression THEN <<".", "gz">> ELSE <<>>)
LooseNames(key, sfx) ==
    {<<key>> \o sfx \o <<".", ext>> : ext \in {"shp", "shx", "dbf"}}

\* C18: with use_tar_shapefiles, after a successful write_shapefile the
\* directory holds the archive of that key and suffix and none of the
\* loose files, the existence test that follows it for the same key and
\* suffix answers True, and the read that follows it returns the value
\* written.
C18_ArchivalEquivalence ==
    /\ Archived(lastop)
       => /\ ArchiveName(lastop.key, lastop.sfx)
                 \in DOMAIN files[lastop.gdir]
          /\ LooseNames(lastop.key, lastop.sfx)
                 \cap DOMAIN files[lastop.gdir] = {}
    /\ (Archived(lastop.prev) /\ lastop.op = "has_file"
            /\ lastop.gdir = lastop.prev.gdir
            /\ lastop.key = lastop.prev.key)
       => lastop.got = [kind |-> "return", val |-> Bool(TRUE), err |-> NoErr]
    /\ (Archived(lastop.prev) /\ lastop.op = "read_shapefile"
            /\ lastop.gdir = lastop.prev.gdir
            /\ lastop.key = lastop.prev.key
            /\ lastop.sfx = lastop.prev.sfx)
       => lastop.got = [kind |-> "return", val |-> lastop.prev.var,
                        err |-> NoErr]

\* ------------------------------------------------ claims on the file cache
\* C12: a cache that started empty and was handed n > maxsize distinct
\* paths, each an existing file nobody else removes or re-creates, tracks
\* exactly the newest maxsize of them, and of the n files exactly those
\* are still on disk: the n - maxsize oldest are gone from both.
C12_CacheBound ==
    LET n == Len(tracked)
    IN  (/\ l0 = <<>>
         /\ Distinct(tracked)
         /\ n > maxsize
         /\ lost \cap Range(tracked) = {})
        => /\ cache_files = SubSeq(tracked, n - maxsize + 1, n)
           /\ \A i \in 1..n : (tracked[i] \in ondisk) <=> (i > n - maxsize)

C12_Witness ==
    /\ l0 = <<>>
    /\ maxsize = 1
    /\ Len(tracked) = 3
    /\ Distinct(tracked)
    /\ lost = {}
    /\ cache_files = <<tracked[3]>>
    /\ ondisk = {tracked[3]}

\* C13: in every state of the cache, right after construction included,
\* the number of tracked paths is at most maxsize.
C13_CapacityInvariant == Len(cache_files) <= maxsize

\* C14: an append of a path that is already tracked leaves the tracked
\* list and the files on disk as they were and evicts nothing.
C14_RetrackNoOp ==
    (lasttrack.op = "append" /\ lasttrack.path \in Range(lasttrack.files0))
    => /\ lasttrack.files1 = lasttrack.files0
       /\ lasttrack.disk1 = lasttrack.disk0
       /\ lasttrack.evicted = <<>>

C16_IdempotentEviction ==
    (lasttrack.evicted # <<>> /\ lasttrack.evicted[1] \notin lasttrack.disk0)
    => /\ lasttrack.err = NoErr
       /\ lasttrack.evicted[1] \notin Range(lasttrack.files1)
       /\ Len(lasttrack.files1) =
              Len(lasttrack.files0)
                  - (IF lasttrack.op = "append"
                        /\ lasttrack.path \notin Range(lasttrack.files0)
                     THEN 0 ELSE 1)
       /\ lasttrack.disk1 = lasttrack.disk0

C16_Witness ==
    /\ lasttrack.op = "append"
    /\ lasttrack.evicted # <<>>
    /\ lasttrack.evicted[1] \notin lasttrack.disk0
    /\ lasttrack.disk0 # {}
    /\ lasttrack.evicted[1] # lasttrack.path

\* -------------------------------------------- claims on status and retry

\* C29 as stated: get_task_status(q) is the complete outcome field of the
\* last record of task q, whatever the message holds (a ";" included), and
\* None when log.txt does not exist or holds no record of q.
C29_FullOutcome ==
    \A e \in Entities : \A q \in {<<"a", "b">>} :
        LET i == LastRecordOf(logfile[e], q)
            s == get_task_status(e \in haslog, logfile[e], q)
        IN  IF e \notin haslog \/ i = 0 THEN s = None
            ELSE s = RecOutcome(Records(logfile[e])[i])

\* C30 as stated: an invocation that is not forced and finds a failure
\* record as the last record of its task is never skipped, whatever the
\* class and the message of the recorded failure.
C30_RetryAfterFailure ==
    \A e \in FinishedOn :
        LET i == LastRecordOf(last[e].log0, last[e].task_name)
        IN  (/\ ~last[e].forced
             /\ i # 0
             /\ i = NumLines(last[e].log0)
             /\ RecOutcome(Records(last[e].log0)[i]) # <<"SUCCESS">>)
            => last[e].out # "skip"

\* ------------------------------------------------ claims on suffix splicing

\* basenames with no, one and two extension segments
C26_Basenames ==
    {<<"log">>, <<"outlines", ".", "shp">>, <<"run", ".", "tar", ".", "gz">>}

\* the positions of "." in a basename
Dots(fname) == {i \in 1..Len(fname) : fname[i] = "."}

\* what resolving basename fname with suffix sfx on directory e must give
C26_Expected(e, fname, sfx) ==
    IF sfx = <<>> THEN [kind |-> "return", val |-> Dir(e) \o fname, err |-> NoErr]
    ELSE IF Cardinality(Dots(fname)) # 1
    THEN [kind |-> "raise", val |-> None, err |-> AssertionError]
    ELSE LET i == CHOOSE d \in Dots(fname) : TRUE
         IN  [kind |-> "return",
              val |-> Dir(e) \o SubSeq(fname, 1, i - 1) \o sfx \o <<".">>
                          \o SubSeq(fname, i + 1, Len(fname)),
              err |-> NoErr]

\* C26: get_filepath of a registered key with a non-empty suffix returns the
\* directory joined with stem + suffix + "." + extension, raises the
\* malformed-basename error when the basename does not have exactly one
\* extension segment, and with an empty suffix returns the directory joined
\* with the registered basename unchanged.
C26_SuffixSplicing ==
    /\ (/\ lastop.op \in {"get_filepath", "get_filepath_delete"}
        /\ lastop.key \in DOMAIN basenames)
       => /\ lastop.got =
                 C26_Expected(lastop.gdir, basenames[lastop.key], lastop.sfx)
          /\ ret = lastop.got
    /\ \A fname \in C26_Basenames, sfx \in Suffixes, e \in Entities :
           LET r == get_filepath([k \in {"outlines"} |-> fname], <<>>, e,
                                 "outlines", FALSE, sfx)
               x == C26_Expected(e, fname, sfx)
           IN  r.err = x.err /\ r.val = x.val

C26_Witness ==
    /\ lastop.op = "get_filepath"
    /\ lastop.key = "model_diagnostics"
    /\ lastop.sfx = <<"_s">>
    /\ basenames = BadRegistry
    /\ ret.kind = "raise"
    /\ ret.err = AssertionError

\* ------------------------------------------ claims on collection-scoped tasks

\* C27: global_task returns the function it is given, not a wrapper; a call
\* of the decorated function gives its caller what the function returns or
\* raises, whatever continue_on_error and whatever the Status Logs hold, and
\* leaves every log.txt and every mirror file as the entity tasks left them.
C27_GlobalTaskUnwrapped ==
    /\ \A func \in TaskFuncs :
           /\ ~global_task(TaskFunction(func)).wrapper
           /\ global_task(TaskFunction(func)).name = func
    /\ lastop.op = "global_task"
       => lastop.got =
              IF lastop.err = NoErr
              THEN [kind |-> "return", val |-> TaskValue(lastop.var),
                    err |-> NoErr]
              ELSE [kind |-> "raise", val |-> None, err |-> lastop.err]
    /\ \A e \in Entities :
           /\ pc = "idle" => /\ logfile[e] = last[e].log1
                             /\ errfile[e] = last[e].err1
           /\ pc = "running" /\ cur.gdir = e => /\ logfile[e] = cur.log0
                                                /\ errfile[e] = cur.err0
           /\ e \in haslog <=> logfile[e] # <<>>

C27_Witness ==
    /\ lastop.op = "global_task"
    /\ lastop.err # NoErr
    /\ continue_on_error
    /\ auto_skip_task
    /\ pc = "idle"
    /\ ret.kind = "raise"
    /\ ExactLastIsSuccess(logfile["X"], <<"a">>)
    /\ nops = 2

\* ---------------------------------------------------- claims on concurrency

\* C21: under every interleaving of the workers of distinct entities, the
\* log.txt, the mirror file, the artifacts and the results of each entity
\* are what its own invocations alone produce: no step of the worker of one
\* entity reads or changes a file of another entity.
C21_CrossEntityIndependence ==
    /\ \A e \in Entities :
           /\ logfile[e] = workers[e].own_log
           /\ (e \in haslog) <=> (workers[e].own_log # <<>>)
           /\ errfile[e] = workers[e].own_err
           /\ (<<e, ".ERROR">> \in mirrors) <=> (workers[e].own_err # <<>>)
           /\ files[e] = workers[e].own_files
           /\ workers[e].ret = workers[e].own_ret
    /\ mirrors \subseteq {<<e, ".ERROR">> : e \in Entities}

C21_Witness ==
    /\ workers["X"].pc = "logged"
    /\ workers["X"].n = 2
    /\ workers["Y"].pc = "running"
    /\ workers["Y"].wrote
    /\ logfile["Y"] # <<>>
    /\ workers["Y"].n = 2
    /\ errfile["Y"] # <<>>
    /\ files["X"] # <<>>

\* the dict in diagnostics.json of X
DiagNow == Tail(files["X"][DiagFile])

\* both add_to_diagnostics calls are over
DiagBothOver == \A p \in 1..2 : diagw.procs[p].pc \in {"done", "raised"}

\* C22: when two processes have run add_to_diagnostics on the same directory
\* with different keys, diagnostics.json is the dict written by the call
\* that wrote last, which holds that call's key; it need not hold the key of
\* the other call, though that call completed too (witness).
C22_LastWriterWins ==
    DiagBothOver
    => /\ diagw.last \in 1..2
       /\ diagw.procs[diagw.last].pc = "done"
       /\ files["X"][DiagFile] = json_dump(diagw.procs[diagw.last].d)
       /\ DiagKeys[diagw.last] \in Range(DiagNow)
       /\ Range(DiagNow) \subseteq {"k0", "k1", "k2"}

C22_Witness ==
    /\ \A p \in 1..2 : diagw.procs[p].pc = "done"
    /\ diagw.files0 # <<>>
    /\ Cardinality(Range(DiagNow) \cap {"k1", "k2"}) = 1
    /\ "k0" \in Range(DiagNow)

\* ------------------------------------------------------ claims on aggregation

\* the entities of the last aggregation whose artifact for it is missing or
\* corrupt
C23_Affected(g) ==
    LET d == lastagg.files0[g]
    IN  CASE lastagg.fn = "compile_run_output" ->
                 ~IsDataset(d, <<"model_diagnostics", ".", "nc">>)
          [] lastagg.fn = "compile_climate_input" ->
                 ~IsDataset(d, <<"climate_monthly", ".", "nc">>)
          [] OTHER -> FALSE

\* C23 as stated: whatever artifacts are missing or corrupt, each of
\* compile_run_output, compile_climate_input and compile_glacier_statistics
\* returns, with the missing sentinel for the entities affected and the data
\* of the others.
C23_PartialDataTolerated ==
    lastagg.fn \in {"compile_run_output", "compile_climate_input",
                    "compile_glacier_statistics"}
    => /\ lastagg.got.kind = "return"
       /\ Len(lastagg.got.val) = Len(lastagg.gdirs)
       /\ lastagg.fn # "compile_glacier_statistics"
          => \A i \in 1..Len(lastagg.gdirs) :
                 lastagg.got.val[i] =
                     IF C23_Affected(lastagg.gdirs[i]) THEN "NaN" ELSE "data"

\* C24 as stated: an aggregation leaves the files and the log.txt of every
\* directory as they were before the call.
C24_AggregationReadOnly ==
    lastagg.fn # "none"
    => /\ files = lastagg.files0
       /\ logfile = lastagg.logs0

\* ------------------------------------------------ claims on the directories

\* the directory the claims expect for the last construction or copy
C25_Dir ==
    LET id == RgiId(lastopen.gdir)
    IN  <<base_path(lastopen.base), SubSeq(id, 1, 8), SubSeq(id, 1, 11), id>>

\* the root of the last construction is defined
C25_Rooted == lastopen.base # "None" \/ working_dir

\* the outlines of a directory are there for the reader
C25_HasOutlines(dirfiles) ==
    (IF use_tar_shapefiles
     THEN <<"outlines", ".", "tar">> \o
              (IF use_compression THEN <<".", "gz">> ELSE <<>>)
     ELSE <<"outlines", ".", "shp">>) \in DOMAIN dirfiles

C28_CopyReturnsHandle ==
    (lastopen.op = "copy" /\ lastopen.out \in {"ok", "skip"})
    => lastopen.got =
           [kind |-> "return",
            val |-> [rgi_id |-> RgiId(lastopen.gdir), dir |-> C25_Dir],
            err |-> NoErr]

\* the outcome field the runner is to record for a finished invocation
OutcomeOf(l) ==
    IF l.out = "ok" THEN <<"SUCCESS">> ELSE <<l.err.cls, ": ">> \o l.err.msg

\* C31: an invocation that was not skipped and whose computation returned
\* or raised an Exception appended exactly one line to log.txt, of the form
\* timestamp;task_name;outcome with outcome SUCCESS or "Class: message";
\* a skipped invocation appended nothing.
C31_OneLinePerInvocation ==
    \A e \in FinishedOn :
        /\ last[e].out \in {"ok", "fail"}
           => /\ IsPrefix(last[e].log0, last[e].log1)
              /\ NumLines(last[e].log1) = NumLines(last[e].log0) + 1
              /\ Records(last[e].log1)[NumLines(last[e].log1)] =
                     <<"ts", ";">> \o last[e].task_name \o <<";">>
                         \o OutcomeOf(last[e])
        /\ last[e].out = "skip" => last[e].log1 = last[e].log0


\* C32 as stated: every invocation that was not skipped and has ended,
\* however its computation ended, left its outcome record in log.txt.
C32_AlwaysRecorded ==
    \A e \in FinishedOn :
        last[e].out # "skip"
        => last[e].log1 = log(last[e].log0, last[e].task_name, last[e].err)

\* how an invocation that ran has ended: with a success record and the
\* value of the computation, with a failure record and the error raised
\* again or None returned, or, interrupted, with no record
C32_EndState ==
    /\ \A e \in FinishedOn :
           /\ last[e].out \in {"ok", "fail"}
              => last[e].log1 =
                     log(last[e].log0, last[e].task_name, last[e].err)
           /\ last[e].out = "interrupted" => last[e].log1 = last[e].log0
    /\ done # "none" /\ last[done].out = "ok"
       => ret = [kind |-> "return", val |-> TaskValue(last[done].func),
                 err |-> NoErr]
    /\ done # "none" /\ last[done].out = "fail"
       => ret = IF continue_on_error
                THEN [kind |-> "return", val |-> None, err |-> NoErr]
                ELSE [kind |-> "raise", val |-> None, err |-> last[done].err]
    /\ done # "none" /\ last[done].out = "interrupted"
       => ret.kind = "raise" /\ ret.err.cls = "KeyboardInterrupt"

\* C32, amended: an invocation that is not skipped and whose computation
\* ends does end, in LOGGED_SUCCESS with the value returned or in
\* LOGGED_FAILURE followed by propagation or a None return when the
\* computation returned or raised an Exception; only an interrupt that is
\* no Exception ends it without a record.
C32_ReachesTerminalState ==
    /\ [](C32_EndState)
    /\ (pc # "idle") ~> (/\ pc = "idle"
                         /\ done # "none"
                         /\ last[done].k = lastcall.k
                         /\ last[done].out \in {"ok", "fail", "interrupted"})

C32_Witness ==
    /\ done = "X"
    /\ last["X"].out = "fail"
    /\ last["X"].prev.out = "ok"
    /\ ret.kind = "raise"
    /\ ~continue_on_error


\* the last call of an entity task was skipped
LastCallSkipped ==
    /\ lastcall.k # 0
    /\ last[lastcall.gdir].k = lastcall.k
    /\ last[lastcall.gdir].out = "skip"

\* C33: a skipped invocation returns None, does not start the computation
\* (no store operation of it is called) and leaves log.txt, the artifacts
\* and diagnostics of the directory and the mirror files as they were.
C33_SkipIsNoOp ==
    LastCallSkipped
    => /\ ret = [kind |-> "return", val |-> None, err |-> NoErr]
       /\ pc = "idle"
       /\ nops = lastcall.nops0
       /\ logfile[lastcall.gdir] = last[lastcall.gdir].log0
       /\ haslog = lastcall.haslog0
       /\ files = lastcall.files0
       /\ errfile[lastcall.gdir] = last[lastcall.gdir].err0
       /\ mirrors = lastcall.mirrors0
       /\ logdir = lastcall.logdir0

C33_Witness ==
    /\ LastCallSkipped
    /\ lastcall.gdir = "X"
    /\ DiagFile \in DOMAIN files["X"]
    /\ last["Y"].out = "none"
    /\ NumLines(logfile["X"]) = 1


\* whether the last call was made as a forced one
LastCallForced ==
    IF last[lastcall.gdir].k = lastcall.k THEN last[lastcall.gdir].forced
    ELSE cur.reset

\* the status the last call found contains the success marker
LastCallFoundSuccess ==
    lastcall.s # None /\ Contains(<<"SUCCESS">>, lastcall.s)

\* C34: a call with reset=True is forced and one with reset=False is not,
\* whatever auto_skip_task is; a call without reset is forced exactly when
\* auto_skip_task is off; a call is skipped exactly when it is not forced
\* and the status it finds has the success marker.
C34_ResetOverridesFlag ==
    lastcall.k # 0
    => /\ lastcall.resetArg = "True" => LastCallForced
       /\ lastcall.resetArg = "False" => ~LastCallForced
       /\ lastcall.resetArg = "None"
          => (LastCallForced <=> ~lastcall.auto_skip)
       /\ LastCallSkipped <=> (~LastCallForced /\ LastCallFoundSuccess)

C34_Witness ==
    /\ lastcall.resetArg = "False"
    /\ ~lastcall.auto_skip
    /\ LastCallSkipped


\* the dict a diagnostics.json holds, as a function of its keys (json.load
\* keeps the last of the entries of a key)
DictOf(dirfiles) ==
    IF DiagFile \notin DOMAIN dirfiles THEN <<>>
    ELSE LET d == Tail(dirfiles[DiagFile])
             At(k) == {i \in 1..Len(d) : i % 2 = 1 /\ d[i] = k}
         IN  [k \in {d[i] : i \in {j \in 1..Len(d) : j % 2 = 1}} |->
                 d[(CHOOSE i \in At(k) : \A j \in At(k) : j <= i) + 1]]

\* C35: add_to_diagnostics(k, v) by a single caller leaves diagnostics.json
\* holding the dict it held before (the empty dict if there was no file)
\* with k set to v and every other entry as it was; get_diagnostics on a
\* directory without diagnostics.json returns the empty dict.
C35_UpdatePreservesEntries ==
    /\ lastop.op = "add_to_diagnostics"
       => LET d0 == DictOf(lastop.files0)
              d1 == DictOf(files[lastop.gdir])
          IN  /\ lastop.got = [kind |-> "return", val |-> None,
                               err |-> NoErr]
              /\ DiagFile \in DOMAIN files[lastop.gdir]
              /\ DOMAIN d1 = DOMAIN d0 \cup {lastop.key}
              /\ d1[lastop.key] = lastop.var[1]
              /\ \A k \in DOMAIN d0 \ {lastop.key} : d1[k] = d0[k]
    /\ lastop.op = "get_diagnostics" /\ DiagFile \notin DOMAIN lastop.files0
       => lastop.got = [kind |-> "return", val |-> <<>>, err |-> NoErr]

C35_Witness ==
    /\ lastop.op = "add_to_diagnostics"
    /\ lastop.key = "k0"
    /\ lastop.var = <<"v1">>
    /\ DictOf(lastop.files0) = [k \in {"k0", "k1"} |->
                                   IF k = "k0" THEN "v0" ELSE "v1"]
    /\ DictOf(files[lastop.gdir]) = [k \in {"k0", "k1"} |-> "v1"]


\* what a lazy attribute computed from these files is
C36_Current(dirfiles) ==
    Compute(lastop.key, basenames, use_tar_shapefiles, use_compression,
            dirfiles, "X")

\* C36: an access of grid or rgi_area_km2 on an instance that already had
\* a successful access returns the value of that first access, whatever
\* the artifact is now; on an instance without one it returns the value of
\* the artifact as it is, or fails with an error when the artifact is not
\* there (or cannot be read).
C36_ComputedOncePerHandle ==
    lastop.op = "access"
    => /\ lastop.var # Unset
          => lastop.got = [kind |-> "return", val |-> lastop.var,
                           err |-> NoErr]
       /\ lastop.var = Unset /\ C36_Current(lastop.files0).err = NoErr
          => lastop.got = [kind |-> "return",
                           val |-> C36_Current(lastop.files0).val,
                           err |-> NoErr]
       /\ lastop.var = Unset /\ C36_Current(lastop.files0).err # NoErr
          => /\ lastop.got.kind = "raise"
             /\ handles[lastop.k].inst[lastop.key] = Unset

C36_Witness ==
    /\ lastop.op = "access"
    /\ lastop.key = "rgi_area_km2"
    /\ lastop.k = 1
    /\ lastop.var = <<"v1">>
    /\ lastop.got.val = <<"v1">>
    /\ C36_Current(files["X"]).val = <<"v2">>
    /\ use_tar_shapefiles


\* the files of the shapefile artifact operation o wrote
C37_Own(o) == LooseNames(o.key, o.sfx) \cup {ArchiveName(o.key, o.sfx)}

\* C37: with use_tar_shapefiles a successful write_shapefile packs exactly
\* the loose files of its key and suffix into the archive of that key and
\* suffix, and every other file of the directory (artifacts of other keys
\* and suffixes, diagnostics) and the Status Log are afterwards as before.
C37_ArchiveTouchesOwnOnly ==
    Archived(lastop)
    => LET f0 == lastop.files0
           f1 == files[lastop.gdir]
           tarred == f1[ArchiveName(lastop.key, lastop.sfx)]
       IN  /\ \A n \in (DOMAIN f0 \cup DOMAIN f1) \ C37_Own(lastop) :
                  n \in DOMAIN f0 /\ n \in DOMAIN f1 /\ f1[n] = f0[n]
           /\ Cardinality({i \in 1..Len(tarred) : tarred[i] = "<"}) =
                  Cardinality(LooseNames(lastop.key, lastop.sfx))
           /\ \A n \in LooseNames(lastop.key, lastop.sfx) :
                  tar_member(tarred, n) # <<>>
           /\ logfile[lastop.gdir] = <<>>
           /\ lastop.gdir \notin haslog

C37_Witness ==
    /\ Archived(lastop)
    /\ lastop.key = "outlines"
    /\ lastop.sfx = <<>>
    /\ Archived(lastop.prev)
    /\ lastop.prev.sfx = <<"_s">>
    /\ lastop.prev.gdir = lastop.gdir
    /\ ArchiveName("outlines", <<"_s">>) \in DOMAIN files[lastop.gdir]
    /\ ArchiveName("outlines", <<>>) \in DOMAIN files[lastop.gdir]


\* the directory the last construction opened, and the directory under the
\* working directory of the entity of the last operation
C38_Dir == gdir_dir(base_path(lastopen.base), RgiId(lastopen.gdir))
C38_Src == gdir_dir(base_path("None"), RgiId(lastopen.gdir))

\* get_task_status on a directory of a tree
C38_Status(tr, dir, name) ==
    get_task_status(LogTxt \in DOMAIN tr[dir],
                    IF LogTxt \in DOMAIN tr[dir] THEN tr[dir][LogTxt]
                    ELSE <<>>, name)

\* C38: a construction with reset=True that returns leaves the directory
\* of the entity existing and empty, so get_task_status is None for every
\* task name; an entity task called without forcing on an empty directory
\* is not skipped; a construction with reset=False leaves every directory
\* and every line of every log.txt as it was.
C38_ResetWipesHistory ==
    /\ (lastopen.op = "init" /\ lastopen.reset /\ lastopen.out = "ok")
       => /\ C38_Dir \in DOMAIN lastopen.tree1
          /\ lastopen.tree1[C38_Dir] = <<>>
          /\ \A name \in TaskNames \cup {<<"copy_to_basedir">>} :
                 C38_Status(lastopen.tree1, C38_Dir, name) = None
    /\ (lastopen.op = "copy" /\ ~lastopen.reset
            /\ lastopen.tree0[C38_Src] = <<>>)
       => lastopen.out \in {"ok", "fail"}
    /\ (lastopen.op = "init" /\ ~lastopen.reset)
       => \A d \in DOMAIN lastopen.tree0 :
              /\ d \in DOMAIN lastopen.tree1
              /\ lastopen.tree1[d] = lastopen.tree0[d]

C38_Witness ==
    /\ lastopen.op = "copy"
    /\ ~lastopen.reset
    /\ lastopen.gdir = "X"
    /\ lastopen.tree0[C38_Src] = <<>>
    /\ lastopen.out = "fail"
    /\ C38_Status(tree, C38_Src, <<"copy_to_basedir">>) # None


====
